---- MODULE Spec2Model ----
(***************************************************************************)
(* Verification model of hyperseek: the crawl orchestrator and its Celery  *)
(* task, the inverted-index build protocol with its index tasks, the       *)
(* search endpoint with its result cache, and the query processor.         *)
(*                                                                         *)
(* The persistence layer is PostgreSQL at READ COMMITTED behind SQLAlchemy  *)
(* sessions: a session's statements run in one transaction until commit;   *)
(* an ORM object added to a session is INSERTed at the next flush (before  *)
(* an ORM statement or at commit); a failed flush or statement leaves the  *)
(* session unusable until rollback.                                        *)
(***************************************************************************)
EXTENDS Integers, Sequences, FiniteSets, TLC

VARIABLES
    documents,    \* committed rows of table documents, in insertion order
    job,          \* committed row of the one crawl job (table crawl_jobs)
    crawl,        \* the run_crawl_job task: position, locals, session
    cancel,       \* the cancel_crawl_job request
    create,       \* the create_document request
    site,         \* the pages the crawler of the job yields, in order
    queries,      \* the two queries handed to process_query
    processed,    \* process_query's result for each, <<>> before the call
    inverted_index,    \* committed rows of table inverted_index
    document_stats,    \* committed rows of table document_stats
    collection_stats,  \* committed rows of table collection_stats
    tasks,        \* the index tasks: position, locals, open transaction
    pool,         \* the number of worker processes running index tasks
    clock,        \* datetime.now, as a count of the stamps given
    requests,     \* the GET /search requests: position and locals
    cache,        \* the entries of the result cache in redis
    autocomplete_terms,  \* committed rows of table autocomplete_terms
    trie,         \* the module global _trie of app.services.autocomplete:
                  \* <<>> for None, <<t>> for the trie t
    searched,     \* the last search_prefix call on the trie and its result
    readers,      \* the autocomplete_search calls: position and locals
    writers,      \* the record_query_term calls: position and locals
    rag,          \* the recursive_rag call: position and locals
    document_embeddings,  \* committed rows of table document_embeddings
    vectors,      \* the index_document_vectors call: position and locals
    hybrid,       \* the hybrid_search call: its two lists and its result
    bm25,         \* the bm25_search call: its query and its locals
    marked,       \* the highlight_terms call: its arguments and result
    chunked,      \* the chunk_text call: its arguments, locals and result
    generic       \* the GenericCrawler.crawl generator: position and locals

crawlVars == <<documents, job, crawl, cancel, create, site>>

queryVars == <<queries, processed>>

indexVars == <<inverted_index, document_stats, collection_stats, tasks, pool,
               clock>>

searchVars == <<requests, cache>>

autocompleteVars == <<autocomplete_terms, trie, searched, readers, writers>>

utilVars == <<marked, chunked, generic>>

serviceVars == <<autocompleteVars, rag, document_embeddings, vectors, hybrid,
                 bm25, utilVars>>

coreVars == <<crawlVars, queryVars, indexVars, searchVars>>

notAutocompleteVars == <<coreVars, rag, document_embeddings, vectors, hybrid,
                         bm25, utilVars>>

notRagVars == <<coreVars, autocompleteVars, document_embeddings, vectors,
                hybrid, bm25, utilVars>>

notVectorVars == <<coreVars, autocompleteVars, rag, hybrid, bm25, utilVars>>

notRankVars == <<coreVars, autocompleteVars, rag, document_embeddings,
                 vectors, utilVars>>

notUtilVars == <<coreVars, autocompleteVars, rag, document_embeddings,
                 vectors, hybrid, bm25>>

notCrawlVars == <<site, queryVars, indexVars, searchVars, serviceVars>>

notQueryVars == <<crawlVars, indexVars, searchVars, serviceVars>>

notSearchVars == <<crawlVars, queryVars, indexVars, serviceVars>>

vars == <<documents, job, crawl, cancel, create, site, queries, processed,
          inverted_index, document_stats, collection_stats, tasks, pool, clock,
          requests, cache, autocomplete_terms, trie, searched, readers, writers,
          rag,
          document_embeddings, vectors, hybrid, bm25, marked, chunked,
          generic>>

----------------------------------------------------------------------------
(* Bounds of the model *)

\* URLs a client can post and the pages of a small site can bear
NumUrls == 2
\* pages of a small site
MaxSitePages == 2
\* pages of the large site: as many as it takes to reach the periodic commits
MaxPages == 10

(* Program constants *)

\* @celery.task(max_retries=3) of run_crawl_job
CrawlMaxRetries == 3
\* progress is persisted every 10 pages found
ProgressEvery == 10
\* the session is committed every 10 documents added
BatchEvery == 10
\* pages whose clean text is shorter than 50 characters are skipped
MinCleanLen == 50

\* pieces a query string is put together from at most
MaxQueryPieces == 3

(* Program constants, continued *)

\* TextProcessor.MIN_TOKEN_LENGTH and MAX_TOKEN_LENGTH
MIN_TOKEN_LENGTH == 2
MAX_TOKEN_LENGTH == 50

Urls == 1..NumUrls
None == "none"

CleanLens == {MinCleanLen - 1, MinCleanLen}

\* the lengths of clean text a page can have: too short, long enough
Pages == [url : Urls, clean_len : CleanLens]

\* the sites a job can crawl: every small site, and one large site of
\* pages that are all stored
LargeSite == [n \in 1..MaxPages |-> [url |-> n, clean_len |-> MinCleanLen]]

Sites == UNION {[1..n -> Pages] : n \in 0..MaxSitePages} \cup {LargeSite}

\* the words of the clean text of a crawled page: str("ab"); how long the
\* text is, is page.clean_len
PageText(page) == <<"a", "b">>


----------------------------------------------------------------------------
(* Text: a string is a sequence of one-character strings over the letters  *)
(* a, b, s (and the capital A), the blank and the hyphen; str(...) follows  *)
(* in a comment where a string is written out.                             *)

Str2(x, y) == <<x, y>>
Str3(x, y, z) == <<x, y, z>>

\* str.lower on one character
LowerChar(c) == IF c = "A" THEN "a" ELSE c

Lower(text) == [i \in DOMAIN text |-> LowerChar(text[i])]

\* the character class [a-zA-Z0-9] of TOKEN_PATTERN
IsTokenChar(c) == c \in {"a", "b", "s", "A"}

\* str.isspace, the class \s
IsSpace(c) == c = " "

\* the order of characters in str comparison (code points)
CharCode(c) ==
    CASE c = " " -> 32 [] c = "-" -> 45 [] c = "A" -> 65
      [] c = "a" -> 97 [] c = "b" -> 98 [] c = "s" -> 115

\* s < t for strings
RECURSIVE StrLess(_, _)
StrLess(s, t) ==
    IF t = <<>> THEN FALSE
    ELSE IF s = <<>> THEN TRUE
    ELSE IF CharCode(Head(s)) # CharCode(Head(t))
         THEN CharCode(Head(s)) < CharCode(Head(t))
    ELSE StrLess(Tail(s), Tail(t))

\* TOKEN_PATTERN.findall: the maximal runs of token characters, in order;
\* run is the run being read
RECURSIVE FindAll(_, _)
FindAll(text, run) ==
    IF text = <<>> THEN (IF run = <<>> THEN <<>> ELSE <<run>>)
    ELSE IF IsTokenChar(Head(text))
         THEN FindAll(Tail(text), Append(run, Head(text)))
    ELSE (IF run = <<>> THEN <<>> ELSE <<run>>) \o FindAll(Tail(text), <<>>)

KeepLength(t) == MIN_TOKEN_LENGTH <= Len(t) /\ Len(t) <= MAX_TOKEN_LENGTH

\* TextProcessor.tokenize: findall on the lowercased text, then the list
\* comprehension keeping the tokens of an allowed length
Tokenize(text) ==
    IF text = <<>> THEN <<>>
    ELSE SelectSeq(FindAll(Lower(text), <<>>), KeepLength)

\* nltk's English stop words that are words over a, b, s
Stopwords == {<<"a">>, <<"s">>, Str2("a", "s")}

NotStopword(t) == t \notin Stopwords

\* TextProcessor.remove_stopwords
RemoveStopwords(tokens) == SelectSeq(tokens, NotStopword)

EndsWith(w, c) == Len(w) >= 1 /\ w[Len(w)] = c

\* PorterStemmer.stem on words over a, b, s: words of at most two letters
\* are kept; of step 1a only SS -> SS and S -> (nothing) apply; no suffix
\* of a later step is spelled with these letters
StemWord(w) ==
    IF Len(w) <= 2 THEN w
    ELSE IF EndsWith(w, "s") /\ w[Len(w) - 1] = "s" THEN w
    ELSE IF EndsWith(w, "s") THEN SubSeq(w, 1, Len(w) - 1)
    ELSE w

\* TextProcessor.stem
Stem(tokens) == [i \in DOMAIN tokens |-> StemWord(tokens[i])]

\* TextProcessor.process
Process(text, stem) ==
    LET tokens == RemoveStopwords(Tokenize(text))
    IN IF stem THEN Stem(tokens) ELSE tokens

\* TextProcessor.process_with_positions: (stemmed token, position) pairs,
\* the position counted before stop words are removed (from 0)
ProcessWithPositions(text) ==
    LET raw == Tokenize(text)
        RECURSIVE Pairs(_)
        Pairs(pos) ==
            IF pos > Len(raw) THEN <<>>
            ELSE (IF raw[pos] \notin Stopwords
                  THEN <<<<StemWord(raw[pos]), pos - 1>>>> ELSE <<>>)
                 \o Pairs(pos + 1)
    IN Pairs(1)

----------------------------------------------------------------------------
(* Query processor *)

ToSet(xs) == {xs[i] : i \in DOMAIN xs}

\* sorted(S) for a set of strings
RECURSIVE Sorted(_)
Sorted(S) ==
    IF S = {} THEN <<>>
    ELSE LET m == CHOOSE x \in S : \A y \in S \ {x} : StrLess(x, y)
         IN <<m>> \o Sorted(S \ {m})

\* " ".join(xs)
RECURSIVE Join(_)
Join(xs) ==
    IF xs = <<>> THEN <<>>
    ELSE IF Len(xs) = 1 THEN Head(xs)
    ELSE Head(xs) \o <<" ">> \o Join(Tail(xs))

\* str.strip
RECURSIVE LStrip(_)
LStrip(text) ==
    IF text # <<>> /\ IsSpace(Head(text)) THEN LStrip(Tail(text)) ELSE text

RECURSIVE RStrip(_)
RStrip(text) ==
    IF text # <<>> /\ IsSpace(text[Len(text)])
    THEN RStrip(SubSeq(text, 1, Len(text) - 1)) ELSE text

Strip(text) == RStrip(LStrip(text))

\* re.sub(r"\s+", " ", text)
RECURSIVE CollapseSpaces(_)
CollapseSpaces(text) ==
    IF text = <<>> THEN <<>>
    ELSE IF IsSpace(Head(text))
         THEN <<" ">> \o CollapseSpaces(LStrip(text))
    ELSE <<Head(text)>> \o CollapseSpaces(Tail(text))

\* hashlib.md5(...).hexdigest(): one digest per string, distinct strings
\* taken to have distinct digests
Md5(s) == <<"md5">> \o s

\* the key built from the token list as it comes, neither sorted nor unique
TokenStrUnsorted(tokens) == Join(tokens)

\* token_str = " ".join(sorted(set(tokens)))
TokenStr(tokens) == Join(Sorted(ToSet(tokens)))

\* process_query
ProcessQuery(query) ==
    LET cleaned == CollapseSpaces(Strip(query))
        tokens == Process(cleaned, TRUE)
        raw_tokens == RemoveStopwords(Tokenize(cleaned))
    IN [original |-> query, cleaned |-> cleaned, tokens |-> tokens,
        raw_tokens |-> raw_tokens, cache_key |-> Md5(TokenStr(tokens))]

\* the pieces the query strings of the model are put together from; a
\* query has at least one character (q: min_length=1)
QueryPieces ==
    {Str2("a", "b"), Str3("a", "b", "s"), Str2("a", "s"), Str2("b", "A"),
     <<" ">>}

RECURSIVE Concat(_)
Concat(pieces) ==
    IF pieces = <<>> THEN <<>> ELSE Head(pieces) \o Concat(Tail(pieces))

QueryStrings ==
    {Concat(ps) : ps \in UNION {[1..n -> QueryPieces] : n \in 1..MaxQueryPieces}}

----------------------------------------------------------------------------
(* Table documents *)

\* a new row: indexed_at is NULL (0) until the document is indexed
Document(url, text) == [url |-> url, clean_content |-> text, indexed_at |-> 0]

\* the rows a statement of a session sees: committed rows, then its own
\* flushed rows
Visible(flushed) == documents \o flushed

UrlStored(rows, url) == \E i \in DOMAIN rows : rows[i].url = url

\* a table documents whose url column is not unique
NoUniqueViolation(rows, url) == FALSE

\* documents.url is declared unique: an INSERT of a stored URL is rejected
UniqueViolation(rows, url) == UrlStored(rows, url)

\* flush: INSERT the pending objects in order; fails on a unique violation
RECURSIVE FlushOk(_, _)
FlushOk(rows, pending) ==
    IF pending = <<>> THEN TRUE
    ELSE /\ ~UniqueViolation(rows, Head(pending).url)
         /\ FlushOk(Append(rows, Head(pending)), Tail(pending))

----------------------------------------------------------------------------
(* The crawl job task: run_crawl_job -> execute_crawl *)

NewExecution(retries) ==
    [pc |-> "mark_running", retries |-> retries,
     docs_found |-> 0, docs_indexed |-> 0,
     pending |-> <<>>, flushed |-> <<>>,
     active |-> TRUE, error |-> None]

\* the session cannot be used: a flush or a statement failed before
Broken(c) == ~c.active

\* an exception leaves the try block of execute_crawl for its handler
ToHandler(c, err, sessionOk) ==
    [c EXCEPT !.pc = "handler", !.error = err,
              !.active = sessionOk,
              !.pending = IF sessionOk THEN @ ELSE <<>>,
              !.flushed = IF sessionOk THEN @ ELSE <<>>]

\* UPDATE crawl_jobs SET status = 'running'; commit.  Outside the try block.
MarkRunning ==
    /\ crawl.pc = "mark_running"
    /\ \E dbOk \in BOOLEAN :
         IF dbOk
         THEN /\ job' = [job EXCEPT !.status = "running"]
              /\ crawl' = [crawl EXCEPT !.pc = "next_page"]
         ELSE /\ job' = job
              /\ crawl' = [crawl EXCEPT !.pc = "raised", !.error = "db",
                                        !.active = FALSE]
    /\ UNCHANGED <<documents, cancel, create, notCrawlVars>>

\* async for page in crawler.crawl(config): the crawler yields a page
CrawlerYield ==
    /\ crawl.pc = "next_page"
    /\ crawl.docs_found < Len(site)
    /\ LET found == crawl.docs_found + 1 IN
       crawl' = [crawl EXCEPT !.docs_found = found,
                     !.pc = IF found % ProgressEvery = 0
                            THEN "progress" ELSE "lookup"]
    /\ UNCHANGED <<documents, job, cancel, create, notCrawlVars>>

\* the crawler's sequence ends
CrawlerEnd ==
    /\ crawl.pc = "next_page"
    /\ crawl.docs_found = Len(site)
    /\ crawl' = [crawl EXCEPT !.pc = "final_commit"]
    /\ UNCHANGED <<documents, job, cancel, create, notCrawlVars>>

\* the crawler raises (an HTTP error outside its own handlers)
CrawlerRaise ==
    /\ crawl.pc = "next_page"
    /\ crawl' = ToHandler(crawl, "crawler", TRUE)
    /\ UNCHANGED <<documents, job, cancel, create, notCrawlVars>>

\* every 10 pages: UPDATE crawl_jobs SET documents_found; commit.
\* The commit flushes the pending documents and commits them too.
Progress ==
    /\ crawl.pc = "progress"
    /\ \E dbOk \in BOOLEAN :
         IF dbOk /\ FlushOk(Visible(crawl.flushed), crawl.pending)
         THEN /\ job' = [job EXCEPT !.documents_found = crawl.docs_found]
              /\ documents' = documents \o crawl.flushed \o crawl.pending
              /\ crawl' = [crawl EXCEPT !.pc = "lookup",
                                        !.pending = <<>>, !.flushed = <<>>]
         ELSE /\ UNCHANGED <<job, documents>>
              /\ crawl' = ToHandler(crawl, "db", FALSE)
    /\ UNCHANGED <<cancel, create, notCrawlVars>>

\* select(Document).where(url == page.url), after the autoflush of the
\* pending documents; then clean the text and db.add the new document
Lookup ==
    /\ crawl.pc = "lookup"
    /\ \E dbOk \in BOOLEAN :
         LET page == site[crawl.docs_found] IN
         IF dbOk /\ FlushOk(Visible(crawl.flushed), crawl.pending)
         THEN LET flushed == crawl.flushed \o crawl.pending
                  c == [crawl EXCEPT !.flushed = flushed, !.pending = <<>>,
                                     !.pc = "next_page"]
              IN IF UrlStored(Visible(flushed), page.url)
                 THEN crawl' = c
                 ELSE IF page.clean_len < MinCleanLen
                 THEN crawl' = c
                 ELSE LET indexed == crawl.docs_indexed + 1 IN
                      crawl' = [c EXCEPT
                          !.pending = <<Document(page.url, PageText(page))>>,
                          !.docs_indexed = indexed,
                          !.pc = IF indexed % BatchEvery = 0
                                 THEN "batch_commit" ELSE "next_page"]
         ELSE crawl' = ToHandler(crawl, "db", FALSE)
    /\ UNCHANGED <<documents, job, cancel, create, notCrawlVars>>

\* a commit inside the try block: the batch commit or the final commit.
\* It fails when the flush of the pending documents fails.
TryCommit(next) ==
    /\ \E dbOk \in {TRUE, crawl.pending = <<>>} :
         IF dbOk /\ FlushOk(Visible(crawl.flushed), crawl.pending)
         THEN /\ documents' = documents \o crawl.flushed \o crawl.pending
              /\ crawl' = [crawl EXCEPT !.pc = next,
                                        !.pending = <<>>, !.flushed = <<>>]
         ELSE /\ documents' = documents
              /\ crawl' = ToHandler(crawl, "db", FALSE)
    /\ UNCHANGED <<job, cancel, create, notCrawlVars>>

\* if docs_indexed % 10 == 0: await db.commit()
BatchCommit ==
    /\ crawl.pc = "batch_commit"
    /\ TryCommit("next_page")

\* await db.commit() after the loop
FinalCommit ==
    /\ crawl.pc = "final_commit"
    /\ TryCommit("mark_complete")

\* UPDATE crawl_jobs SET status = 'completed', counters; commit
MarkComplete ==
    /\ crawl.pc = "mark_complete"
    /\ \E dbOk \in BOOLEAN :
         IF dbOk
         THEN /\ job' = [job EXCEPT !.status = "completed",
                             !.documents_found = crawl.docs_found,
                             !.documents_indexed = crawl.docs_indexed]
              /\ crawl' = [crawl EXCEPT !.pc = "done"]
         ELSE /\ job' = job
              /\ crawl' = ToHandler(crawl, "db", FALSE)
    /\ UNCHANGED <<documents, cancel, create, notCrawlVars>>

\* except Exception: UPDATE crawl_jobs SET status = 'failed', error_message,
\* counters; commit; raise.  The UPDATE runs on the session of the failure.
Handler ==
    /\ crawl.pc = "handler"
    /\ \E dbOk \in BOOLEAN :
         IF /\ dbOk
            /\ ~Broken(crawl)
            /\ FlushOk(Visible(crawl.flushed), crawl.pending)
         THEN /\ job' = [job EXCEPT !.status = "failed",
                             !.error_message = crawl.error,
                             !.documents_found = crawl.docs_found,
                             !.documents_indexed = crawl.docs_indexed]
              /\ documents' = documents \o crawl.flushed \o crawl.pending
              /\ crawl' = [crawl EXCEPT !.pc = "raised",
                                        !.pending = <<>>, !.flushed = <<>>]
         ELSE /\ UNCHANGED <<job, documents>>
              /\ crawl' = [crawl EXCEPT !.pc = "raised", !.error = "db",
                                        !.active = FALSE,
                                        !.pending = <<>>, !.flushed = <<>>]
    /\ UNCHANGED <<cancel, create, notCrawlVars>>

\* a retry policy that allows one retry more
CanRetryOnceMore(retries, max_retries) == retries <= max_retries

\* celery's Task.retry: a new execution while retries remain
CanRetry(retries, max_retries) == retries < max_retries

\* except Exception as exc: raise self.retry(exc=exc, countdown=60)
RunCrawlJobRetry ==
    /\ crawl.pc = "raised"
    /\ crawl' = IF CanRetry(crawl.retries, CrawlMaxRetries)
                THEN NewExecution(crawl.retries + 1)
                ELSE [crawl EXCEPT !.pc = "task_failed"]
    /\ UNCHANGED <<documents, job, cancel, create, notCrawlVars>>

----------------------------------------------------------------------------
(* POST /crawl/jobs/{id}/cancel *)

\* select the job; 400 unless it is pending or running
CancelLoad ==
    /\ cancel.pc = "idle"
    /\ cancel' = IF job.status \in {"pending", "running"}
                 THEN [pc |-> "loaded"]
                 ELSE [pc |-> "rejected"]
    /\ UNCHANGED <<documents, job, crawl, create, notCrawlVars>>

\* job.status = "cancelled", written when the request's session commits
CancelCommit ==
    /\ cancel.pc = "loaded"
    /\ job' = [job EXCEPT !.status = "cancelled"]
    /\ cancel' = [pc |-> "cancelled"]
    /\ UNCHANGED <<documents, crawl, create, notCrawlVars>>

----------------------------------------------------------------------------
(* POST /documents *)

\* select(Document).where(url == url); 409 when it exists
CreateDocumentCheck ==
    /\ create.pc = "idle"
    /\ \E u \in Urls :
         create' = IF UrlStored(documents, u)
                   THEN [pc |-> "conflict", url |-> u]
                   ELSE [pc |-> "checked", url |-> u]
    /\ UNCHANGED <<documents, job, crawl, cancel, notCrawlVars>>

\* db.add(doc); flush; the request's session commits.  The INSERT waits
\* while another transaction holds an uncommitted row of the same URL.
CreateDocumentFlush ==
    /\ create.pc = "checked"
    /\ ~UrlStored(crawl.flushed, create.url)
    /\ IF UniqueViolation(documents, create.url)
       THEN /\ documents' = documents
            /\ create' = [create EXCEPT !.pc = "error"]
       ELSE /\ documents' = Append(documents, Document(create.url, <<"a", "b">>))
            /\ create' = [create EXCEPT !.pc = "created"]
    /\ UNCHANGED <<job, crawl, cancel, notCrawlVars>>

----------------------------------------------------------------------------
(* Inverted index: index_document and update_collection_stats *)

DocIds == DOMAIN documents

\* the postings of a document among rows of inverted_index
PostingsOf(rows, d) == {r \in rows : r.document_id = d}

StatsOf(rows, d) == {r \in rows : r.document_id = d}

\* the positions of a term among (token, position) pairs, in order
PositionsOf(token_positions, term) ==
    LET hits == SelectSeq(token_positions, LAMBDA tp : tp[1] = term)
    IN [i \in DOMAIN hits |-> hits[i][2]]

\* term_data: per term its frequency and positions
TermData(token_positions) ==
    {[term |-> term,
      frequency |-> Len(PositionsOf(token_positions, term)),
      positions |-> PositionsOf(token_positions, term)] :
        term \in {token_positions[i][1] : i \in DOMAIN token_positions}}

\* a total that counts each term once
TotalTermsDistinct(token_positions) ==
    Cardinality({token_positions[i][1] : i \in DOMAIN token_positions})

\* total_terms = len(token_positions)
TotalTerms(token_positions) == Len(token_positions)

\* unique_terms = len(term_data)
UniqueTerms(token_positions) == Cardinality(TermData(token_positions))

\* entries: the rows to insert for a document
Entries(d, token_positions) ==
    {[term |-> e.term, document_id |-> d, term_frequency |-> e.frequency,
      positions |-> e.positions] : e \in TermData(token_positions)}

\* the document's (token, position) pairs, or <<>> when it cannot be indexed
TokenPositions(d) ==
    IF d \notin DocIds THEN <<>>
    ELSE ProcessWithPositions(documents[d].clean_content)

SameKeyRows(rows, entries) ==
    {r \in rows : \E e \in entries :
        e.term = r.term /\ e.document_id = r.document_id}

RECURSIVE Gcd(_, _)
Gcd(a, b) == IF b = 0 THEN a ELSE Gcd(b, a % b)

\* a float that is the quotient of two naturals, in lowest terms
Quotient(num, den) ==
    [num |-> num \div Gcd(num, den), den |-> den \div Gcd(num, den)]

\* the sum of total_terms over rows of document_stats
RECURSIVE SumTotalTerms(_)
SumTotalTerms(rows) ==
    IF rows = {} THEN 0
    ELSE LET r == CHOOSE x \in rows : TRUE
         IN r.total_terms + SumTotalTerms(rows \ {r})

\* an average that is always 0.0
AvgLengthZero(rows) == Quotient(0, 1)

\* select(func.avg(DocumentStats.total_terms)), or 0.0 over no rows
AvgLength(rows) ==
    IF rows = {} THEN Quotient(0, 1)
    ELSE Quotient(SumTotalTerms(rows), Cardinality(rows))

\* select(func.count(DocumentStats.document_id))
CountDocs(rows) == Cardinality(rows)

CollectionRow(total_docs, avg_length) ==
    [id |-> 1, total_documents |-> total_docs,
     avg_document_length |-> avg_length]

----------------------------------------------------------------------------
(* Index tasks: index_document, index_batch, full_reindex *)

TaskIds == DOMAIN tasks

EmptyTx == [deleted |-> {}, inserted |-> {}, stats |-> {}, stamp |-> 0]

\* @celery.task(max_retries=3) of the index_document task
IndexMaxRetries == 3

NewTask(kind, ids) ==
    [kind |-> kind, args |-> ids, pc |-> "queued", retries |-> 0,
     ids |-> <<>>, tx |-> EmptyTx, aborted |-> FALSE,
     total_docs |-> 0, avg_length |-> Quotient(0, 1)]

Running(t) == tasks[t].pc \notin {"queued", "done", "task_failed"}

\* the document a task is indexing
CurDoc(t) == Head(tasks[t].ids)

\* after the delete of index_document, before its commit
InWrite(t) == tasks[t].pc \in {"insert", "stats", "stamp", "commit"}

Set(t, task) == tasks' = [tasks EXCEPT ![t] = task]

\* a worker process takes the task off the queue
StartTask(t) ==
    /\ tasks[t].pc = "queued"
    /\ Cardinality({u \in TaskIds : Running(u)}) < pool
    /\ Set(t, [tasks[t] EXCEPT
           !.pc = IF @ = "queued" /\ tasks[t].kind = "full_reindex"
                  THEN "enumerate" ELSE "load",
           !.ids = tasks[t].args])
    /\ UNCHANGED <<documents, inverted_index, document_stats,
                   collection_stats, pool, clock, crawlVars, queryVars,
                   searchVars, serviceVars>>

\* where a task goes when do_inverted_index and index_document_vectors are
\* through with a document
AfterDoc(task) ==
    IF task.kind = "index_document" \/ Len(task.ids) = 1
    THEN [task EXCEPT !.pc = "count", !.ids = <<>>, !.tx = EmptyTx]
    ELSE [task EXCEPT !.pc = "load", !.ids = Tail(@), !.tx = EmptyTx]

\* an exception while a document is indexed: the index_document task lets
\* it through to its retry; index_batch and full_reindex log it and go on
\* with the same session
DocFailed(task) ==
    IF task.kind = "index_document"
    THEN [task EXCEPT !.pc = "raised", !.tx = EmptyTx, !.aborted = TRUE]
    ELSE [AfterDoc(task) EXCEPT !.aborted = TRUE]

\* an exception in update_collection_stats, or before the loop
TaskFailed(task) ==
    IF task.kind = "index_document"
    THEN [task EXCEPT !.pc = "raised", !.tx = EmptyTx, !.aborted = TRUE]
    ELSE [task EXCEPT !.pc = "task_failed", !.tx = EmptyTx,
                      !.aborted = TRUE]

\* full_reindex: select(Document.id)
Enumerate(t) ==
    /\ tasks[t].pc = "enumerate"
    /\ \E dbOk \in BOOLEAN :
         IF ~dbOk THEN Set(t, TaskFailed(tasks[t]))
         ELSE IF documents = <<>>
         THEN Set(t, [tasks[t] EXCEPT !.pc = "count"])
         ELSE Set(t, [tasks[t] EXCEPT !.pc = "load",
                   !.ids = [i \in 1..Len(documents) |-> i]])
    /\ UNCHANGED <<documents, inverted_index, document_stats,
                   collection_stats, pool, clock, crawlVars, queryVars,
                   searchVars, serviceVars>>

\* an index_document that goes on whatever it has loaded
LoadWithoutCheck(t) ==
    /\ tasks[t].pc = "load"
    /\ Set(t, [tasks[t] EXCEPT !.pc = "delete"])
    /\ UNCHANGED <<documents, inverted_index, document_stats,
                   collection_stats, pool, clock, crawlVars, queryVars,
                   searchVars, serviceVars>>

\* index_document: select the document, process its text; return when the
\* document is missing, has no clean content or yields no tokens
Load(t) ==
    /\ tasks[t].pc = "load"
    /\ \E dbOk \in BOOLEAN :
         IF ~dbOk \/ tasks[t].aborted
         THEN Set(t, DocFailed(tasks[t]))
         ELSE IF TokenPositions(CurDoc(t)) = <<>>
         THEN Set(t, [tasks[t] EXCEPT !.pc = "vectors"])
         ELSE Set(t, [tasks[t] EXCEPT !.pc = "delete"])
    /\ UNCHANGED <<documents, inverted_index, document_stats,
                   collection_stats, pool, clock, crawlVars, queryVars,
                   searchVars, serviceVars>>

\* the rows of inverted_index another open transaction has deleted or
\* replaced: they stay locked until that transaction ends
LockedPostings(t) ==
    UNION {tasks[u].tx.deleted : u \in TaskIds \ {t}}

\* the rows another open transaction has inserted and not committed
ForeignPostings(t) ==
    UNION {tasks[u].tx.inserted : u \in TaskIds \ {t}}

\* delete(InvertedIndex).where(document_id == doc_id): waits for the locks
\* on the rows it deletes
Delete(t) ==
    /\ tasks[t].pc = "delete"
    /\ LET rows == PostingsOf(inverted_index, CurDoc(t)) IN
       /\ rows \cap LockedPostings(t) = {}
       /\ Set(t, [tasks[t] EXCEPT !.pc = "insert", !.tx.deleted = rows])
    /\ UNCHANGED <<documents, inverted_index, document_stats,
                   collection_stats, pool, clock, crawlVars, queryVars,
                   searchVars, serviceVars>>

\* pg_insert(InvertedIndex).values(entries).on_conflict_do_update(...):
\* waits for an uncommitted row of the same (term, document), replaces a
\* committed one
Insert(t) ==
    /\ tasks[t].pc = "insert"
    /\ LET entries == Entries(CurDoc(t), TokenPositions(CurDoc(t)))
           live == inverted_index \ tasks[t].tx.deleted
           replaced == SameKeyRows(live, entries)
       IN /\ SameKeyRows(ForeignPostings(t), entries) = {}
          /\ replaced \cap LockedPostings(t) = {}
          /\ Set(t, [tasks[t] EXCEPT !.pc = "stats",
                 !.tx.deleted = @ \cup replaced,
                 !.tx.inserted = entries])
    /\ UNCHANGED <<documents, inverted_index, document_stats,
                   collection_stats, pool, clock, crawlVars, queryVars,
                   searchVars, serviceVars>>

\* an upsert that adds the new total to the stored one
UpsertStatsAdding(old, new) ==
    [new EXCEPT !.total_terms = old.total_terms + new.total_terms]

\* the value ON CONFLICT DO UPDATE leaves in a document_stats row
UpsertStats(old, new) == new

\* pg_insert(DocumentStats).values(...).on_conflict_do_update(...)
Stats(t) ==
    /\ tasks[t].pc = "stats"
    /\ LET d == CurDoc(t)
           tp == TokenPositions(d)
           new == [document_id |-> d, total_terms |-> TotalTerms(tp),
                   unique_terms |-> UniqueTerms(tp)]
           old == StatsOf(document_stats, d)
       IN /\ \A u \in TaskIds \ {t} : StatsOf(tasks[u].tx.stats, d) = {}
          /\ Set(t, [tasks[t] EXCEPT !.pc = "stamp",
                 !.tx.stats = IF old = {} THEN {new}
                              ELSE {UpsertStats(r, new) : r \in old}])
    /\ UNCHANGED <<documents, inverted_index, document_stats,
                   collection_stats, pool, clock, crawlVars, queryVars,
                   searchVars, serviceVars>>

\* update(Document).where(id == doc_id).values(indexed_at=now())
Stamp(t) ==
    /\ tasks[t].pc = "stamp"
    /\ \A u \in TaskIds \ {t} :
         ~(tasks[u].tx.stamp # 0 /\ tasks[u].pc = "commit"
           /\ CurDoc(u) = CurDoc(t))
    /\ clock' = clock + 1
    /\ Set(t, [tasks[t] EXCEPT !.pc = "commit", !.tx.stamp = clock + 1])
    /\ UNCHANGED <<documents, inverted_index, document_stats,
                   collection_stats, pool, crawlVars, queryVars,
                   searchVars, serviceVars>>

\* await db.commit() of index_document: the transaction's writes become
\* visible together
Commit(t) ==
    /\ tasks[t].pc = "commit"
    /\ LET tx == tasks[t].tx
           d == CurDoc(t)
       IN /\ inverted_index' = (inverted_index \ tx.deleted) \cup tx.inserted
          /\ document_stats' =
                 (document_stats \ StatsOf(document_stats, d)) \cup tx.stats
          /\ documents' = [documents EXCEPT ![d].indexed_at = tx.stamp]
    /\ Set(t, [tasks[t] EXCEPT !.pc = "vectors", !.tx = EmptyTx])
    /\ UNCHANGED <<collection_stats, pool, clock, job, crawl, cancel, create,
                   site, queryVars, searchVars,
                   serviceVars>>

\* index_document_vectors: an embedding failure is logged and 0 returned;
\* a failing statement raises
Vectors(t) ==
    /\ tasks[t].pc = "vectors"
    /\ \E outcome \in {"stored", "embedding_failure", "db_error"} :
         IF outcome = "db_error" \/ tasks[t].aborted
         THEN Set(t, DocFailed(tasks[t]))
         ELSE Set(t, AfterDoc(tasks[t]))
    /\ UNCHANGED <<documents, inverted_index, document_stats,
                   collection_stats, pool, clock, crawlVars, queryVars,
                   searchVars, serviceVars>>

\* update_collection_stats: select count
Count(t) ==
    /\ tasks[t].pc = "count"
    /\ IF tasks[t].aborted
       THEN Set(t, TaskFailed(tasks[t]))
       ELSE Set(t, [tasks[t] EXCEPT !.pc = "avg",
                !.total_docs = CountDocs(document_stats)])
    /\ UNCHANGED <<documents, inverted_index, document_stats,
                   collection_stats, pool, clock, crawlVars, queryVars,
                   searchVars, serviceVars>>

\* update_collection_stats: select avg
Avg(t) ==
    /\ tasks[t].pc = "avg"
    /\ Set(t, [tasks[t] EXCEPT !.pc = "upsert",
           !.avg_length = AvgLength(document_stats)])
    /\ UNCHANGED <<documents, inverted_index, document_stats,
                   collection_stats, pool, clock, crawlVars, queryVars,
                   searchVars, serviceVars>>

\* update_collection_stats: upsert the singleton row; commit
UpsertCollection(t) ==
    /\ tasks[t].pc = "upsert"
    /\ \E dbOk \in BOOLEAN :
         IF dbOk
         THEN /\ collection_stats' =
                    {CollectionRow(tasks[t].total_docs, tasks[t].avg_length)}
              /\ Set(t, [tasks[t] EXCEPT !.pc = "done"])
         ELSE /\ collection_stats' = collection_stats
              /\ Set(t, TaskFailed(tasks[t]))
    /\ UNCHANGED <<documents, inverted_index, document_stats, pool, clock,
                   crawlVars, queryVars,
                   searchVars, serviceVars>>

\* index_document task: except Exception as exc: raise self.retry(exc=exc,
\* countdown=30); the next execution opens a new session
IndexRetry(t) ==
    /\ tasks[t].pc = "raised"
    /\ Set(t, IF CanRetry(tasks[t].retries, IndexMaxRetries)
              THEN [NewTask(tasks[t].kind, tasks[t].args) EXCEPT
                       !.pc = "load", !.ids = tasks[t].args,
                       !.retries = tasks[t].retries + 1]
              ELSE [tasks[t] EXCEPT !.pc = "task_failed"])
    /\ UNCHANGED <<documents, inverted_index, document_stats,
                   collection_stats, pool, clock, crawlVars, queryVars,
                   searchVars, serviceVars>>

----------------------------------------------------------------------------

InitJob ==
    [status |-> "pending", documents_found |-> 0, documents_indexed |-> 0,
     error_message |-> None]

InitIdleIndex ==
    /\ inverted_index = {}
    /\ document_stats = {}
    /\ collection_stats = {}
    /\ tasks = <<>>
    /\ pool = 0
    /\ clock = 0

InitIdleQuery ==
    /\ queries = [i \in 1..2 |-> <<>>]
    /\ processed = <<>>

InitIdleSearch ==
    /\ requests = <<>>
    /\ cache = {}

InitIdleAutocomplete ==
    /\ autocomplete_terms = {}
    /\ trie = <<>>
    /\ searched = <<>>
    /\ readers = <<>>
    /\ writers = <<>>

InitIdleRag == rag = [pc |-> "not_sent"]

InitIdleVectors ==
    /\ document_embeddings = {}
    /\ vectors = [pc |-> "not_called"]

InitIdleRank ==
    /\ hybrid = [pc |-> "not_called"]
    /\ bm25 = [pc |-> "not_called"]

InitIdleUtil ==
    /\ marked = [pc |-> "not_called"]
    /\ chunked = [pc |-> "not_called"]
    /\ generic = [pc |-> "not_called"]

InitIdleServices ==
    /\ InitIdleAutocomplete
    /\ InitIdleRag
    /\ InitIdleVectors
    /\ InitIdleRank
    /\ InitIdleUtil

InitCrawl ==
    /\ InitIdleQuery
    /\ InitIdleSearch
    /\ InitIdleServices
    /\ InitIdleIndex
    /\ documents \in {<<>>, <<Document(1, <<"a", "b">>)>>}
    /\ job = InitJob
    /\ crawl = NewExecution(0)
    /\ cancel = [pc |-> "idle"]
    /\ create = [pc |-> "idle", url |-> None]
    /\ site \in Sites

NextCrawl ==
    \/ MarkRunning
    \/ CrawlerYield
    \/ CrawlerEnd
    \/ CrawlerRaise
    \/ Progress
    \/ Lookup
    \/ BatchCommit
    \/ FinalCommit
    \/ MarkComplete
    \/ Handler
    \/ RunCrawlJobRetry
    \/ CancelLoad
    \/ CancelCommit
    \/ CreateDocumentCheck
    \/ CreateDocumentFlush

SpecCrawl == InitCrawl /\ [][NextCrawl]_vars

\* two callers hand their queries to process_query
CallProcessQuery ==
    /\ processed = <<>>
    /\ processed' = [i \in 1..2 |-> ProcessQuery(queries[i])]
    /\ UNCHANGED <<queries, notQueryVars>>

InitIdleCrawl ==
    /\ documents = <<>>
    /\ job = InitJob
    /\ crawl = [NewExecution(0) EXCEPT !.pc = "not_queued"]
    /\ cancel = [pc |-> "not_sent"]
    /\ create = [pc |-> "not_sent", url |-> None]
    /\ site = <<>>

InitQuery ==
    /\ queries \in [1..2 -> QueryStrings]
    /\ processed = <<>>
    /\ InitIdleCrawl
    /\ InitIdleIndex
    /\ InitIdleSearch
    /\ InitIdleServices

NextQuery == CallProcessQuery

SpecQuery == InitQuery /\ [][NextQuery]_vars

----------------------------------------------------------------------------
(* Claims on the query processor *)

StemmedSet(i) == ToSet(processed[i].tokens)

SameKey == processed[1].cache_key = processed[2].cache_key

\* C10, as stated: queries with equal sets of stemmed tokens get equal
\* cache keys, and queries with disjoint sets of stemmed tokens get
\* different cache keys.
C10_AsStated ==
    processed # <<>> =>
        /\ (StemmedSet(1) = StemmedSet(2) => SameKey)
        /\ (StemmedSet(1) \cap StemmedSet(2) = {} => ~SameKey)

\* C10, amended: queries with equal sets of stemmed tokens get equal cache
\* keys, and queries with disjoint sets of stemmed tokens, at least one of
\* them not empty, get different cache keys.
C10_CacheKey ==
    processed # <<>> =>
        /\ (StemmedSet(1) = StemmedSet(2) => SameKey)
        /\ (/\ StemmedSet(1) \cap StemmedSet(2) = {}
            /\ StemmedSet(1) \cup StemmedSet(2) # {}
            => ~SameKey)

\* two queries with the same two stemmed tokens in a different order
C10_Witness ==
    /\ processed # <<>>
    /\ StemmedSet(1) = StemmedSet(2)
    /\ Cardinality(StemmedSet(1)) = 2
    /\ processed[1].tokens # processed[2].tokens
    /\ processed[1].cleaned # processed[2].cleaned
    /\ SameKey

----------------------------------------------------------------------------
(* Index tasks run by parallel workers *)

\* documents to index
NumDocs == 2
\* index tasks dispatched
NumTasks == 2

\* the clean content of the documents of the model: str("ab abs"),
\* str("ba as ab"), str("as"), str("")
ContentOf(d) ==
    CASE d % 4 = 1 -> <<"a", "b", " ", "a", "b", "s">>
      [] d % 4 = 2 -> <<"b", "a", " ", "a", "s", " ", "a", "b">>
      [] d % 4 = 3 -> <<"a", "s">>
      [] OTHER -> <<>>

\* the tasks that can be dispatched: index_document for a document or for
\* an id that names no document, index_batch for two documents or for the
\* same document twice, full_reindex
TaskCalls ==
    {NewTask("index_document", <<d>>) : d \in 1..NumDocs + 1}
    \cup {NewTask("index_batch", <<1, 2>>), NewTask("index_batch", <<1, 1>>)}
    \cup {NewTask("full_reindex", <<>>)}

InitDocuments ==
    documents = [d \in 1..NumDocs |-> Document(d, ContentOf(d))]

InitTasks ==
    /\ InitDocuments
    /\ job = InitJob
    /\ crawl = [NewExecution(0) EXCEPT !.pc = "not_queued"]
    /\ cancel = [pc |-> "not_sent"]
    /\ create = [pc |-> "not_sent", url |-> None]
    /\ site = <<>>
    /\ InitIdleQuery
    /\ InitIdleSearch
    /\ InitIdleServices
    /\ inverted_index = {}
    /\ document_stats = {}
    /\ collection_stats = {}
    /\ tasks \in [1..NumTasks -> TaskCalls]
    /\ clock = 0

\* as many worker processes as tasks
InitIndex ==
    /\ InitTasks
    /\ pool = NumTasks

NextIndex ==
    \/ \E t \in TaskIds : StartTask(t)
    \/ \E t \in TaskIds : Enumerate(t)
    \/ \E t \in TaskIds : Load(t)
    \/ \E t \in TaskIds : Delete(t)
    \/ \E t \in TaskIds : Insert(t)
    \/ \E t \in TaskIds : Stats(t)
    \/ \E t \in TaskIds : Stamp(t)
    \/ \E t \in TaskIds : Commit(t)
    \/ \E t \in TaskIds : Vectors(t)
    \/ \E t \in TaskIds : Count(t)
    \/ \E t \in TaskIds : Avg(t)
    \/ \E t \in TaskIds : UpsertCollection(t)
    \/ \E t \in TaskIds : IndexRetry(t)

SpecIndex == InitIndex /\ [][NextIndex]_vars

\* one worker process: the tasks run one after another
InitSequential ==
    /\ InitTasks
    /\ pool = 1

SpecSequential == InitSequential /\ [][NextIndex]_vars

----------------------------------------------------------------------------
(* Claims on the crawl job *)

StatusMoves ==
    {<<"pending", "running">>, <<"pending", "cancelled">>,
     <<"running", "completed">>, <<"running", "failed">>,
     <<"running", "cancelled">>}

\* C1: the status of the crawl job changes only forward along pending ->
\* running -> (completed | failed | cancelled), a pending job may also be
\* cancelled, and a completed, failed or cancelled job keeps its status.
C1_StatusMachine ==
    [][job'.status # job.status => <<job.status, job'.status>> \in StatusMoves]_vars

NoSharedUrl ==
    \A i, j \in DOMAIN documents :
        documents[i].url = documents[j].url => i = j

\* the pages the running execution has been handed so far
Yielded == {site[n] : n \in 1..crawl.docs_found}

\* the rows a step has added to table documents
Added(old, new) == SubSeq(new, Len(old) + 1, Len(new))

\* C5: no two Documents share a URL, the stored Documents stay, and the
\* Documents a step of the crawl adds bear URLs the crawler has yielded
\* that were not stored, each URL once: at most one Document per distinct
\* yielded URL and none for a stored URL.
C5_Deduplication ==
    /\ NoSharedUrl
    /\ [][/\ Len(documents') >= Len(documents)
          /\ SubSeq(documents', 1, Len(documents)) = documents
          /\ NoSharedUrl'
          /\ \A i \in DOMAIN Added(documents, documents') :
               LET url == Added(documents, documents')[i].url IN
               /\ ~UrlStored(documents, url)
               /\ create' = create => \E page \in Yielded : page.url = url]_vars

\* a completed job whose crawler yielded the same URL twice, both pages long
\* enough to store, has stored it once
C5_Witness ==
    /\ job.status = "completed"
    /\ crawl.pc = "done"
    /\ Len(site) = 2
    /\ site[1].url = site[2].url
    /\ \A n \in 1..2 : site[n].clean_len >= MinCleanLen
    /\ crawl.docs_found = 2
    /\ crawl.docs_indexed = 1
    /\ Cardinality({i \in DOMAIN documents : documents[i].url = site[1].url}) = 1

\* C6: when an exception leaves execute_crawl for the worker task, the job's
\* stored status is failed, with an error message and with the counts of
\* documents found and indexed the execution has reached.
C6_FailedOnException ==
    [][crawl.pc # "raised" /\ crawl'.pc = "raised" =>
          /\ job'.status = "failed"
          /\ job'.error_message # None
          /\ job'.documents_found = crawl.docs_found
          /\ job'.documents_indexed = crawl.docs_indexed]_vars

----------------------------------------------------------------------------
(* Claims on the inverted index *)

\* the sum of term_frequency over rows of inverted_index
RECURSIVE SumFrequency(_)
SumFrequency(rows) ==
    IF rows = {} THEN 0
    ELSE LET r == CHOOSE x \in rows : TRUE
         IN r.term_frequency + SumFrequency(rows \ {r})

\* C2: in every committed state a document has at most one stats row; its
\* total_terms is the sum of term_frequency over the document's postings
\* and its unique_terms their number; and the postings, the stats row and
\* the indexed stamp of a document are there together or not at all.
C2_StatsMatchPostings ==
    /\ \A r \in document_stats : r.document_id \in DocIds
    /\ \A r \in inverted_index : r.document_id \in DocIds
    /\ \A d \in DocIds :
         LET stats == StatsOf(document_stats, d)
             postings == PostingsOf(inverted_index, d)
         IN /\ Cardinality(stats) <= 1
            /\ \A r \in stats :
                 /\ r.total_terms = SumFrequency(postings)
                 /\ r.unique_terms = Cardinality(postings)
            /\ (stats # {}) = (postings # {})
            /\ (stats # {}) = (documents[d].indexed_at # 0)

\* a reindex about to commit: the document has committed postings and a
\* stats row, and the open transaction replaces them
C2_Witness ==
    \E t \in TaskIds :
        /\ tasks[t].pc = "commit"
        /\ StatsOf(document_stats, CurDoc(t)) # {}
        /\ tasks[t].tx.deleted # {}
        /\ tasks[t].tx.inserted # {}
        /\ documents[CurDoc(t)].indexed_at # 0

\* C3: no two executions of index_document for the same document are both
\* between their delete of the postings and their commit.
C3_Serialized ==
    \A t, u \in TaskIds :
        t # u /\ InWrite(t) /\ InWrite(u) => CurDoc(t) # CurDoc(u)

Drained == \A t \in TaskIds : tasks[t].pc = "done"

\* C4: when every index task has finished, the collection_stats row holds
\* the number of document_stats rows and the mean of their total_terms.
C4_ExactAfterDrain ==
    Drained =>
        collection_stats =
            {CollectionRow(CountDocs(document_stats), AvgLength(document_stats))}

SameCall(t, u) ==
    tasks[t].kind = tasks[u].kind /\ tasks[t].args = tasks[u].args

\* index_document(d) and update_collection_stats have run to their end in
\* task u, one task runs at a time, and what else has run is the same call
\* or a task that ran to its end
RanOnce(u, d) ==
    /\ pool = 1
    /\ tasks[u].kind = "index_document"
    /\ tasks[u].args = <<d>>
    /\ tasks[u].pc = "done"
    /\ \A t \in TaskIds \ {u} :
         SameCall(t, u) \/ tasks[t].pc \in {"queued", "done"}

\* C8: once index_document(d) followed by update_collection_stats has run,
\* running it again leaves the postings of d, the stats row of d and the
\* collection_stats row as they are.
C8_Idempotent ==
    [][\A d \in DocIds : \A u \in TaskIds :
          RanOnce(u, d) =>
              /\ PostingsOf(inverted_index', d) = PostingsOf(inverted_index, d)
              /\ StatsOf(document_stats', d) = StatsOf(document_stats, d)
              /\ collection_stats' = collection_stats]_vars

\* the same call has run to its end twice, one after the other, and the
\* document bears the stamp of the second run
C8_Witness ==
    \E d \in DocIds : \E t, u \in TaskIds :
        /\ t # u
        /\ RanOnce(u, d)
        /\ SameCall(t, u)
        /\ tasks[t].pc = "done"
        /\ PostingsOf(inverted_index, d) # {}
        /\ documents[d].indexed_at >= 2

----------------------------------------------------------------------------
(* The crawl task and an index_document task, each with its retries *)

InitWorkers ==
    /\ InitIdleQuery
    /\ InitIdleSearch
    /\ InitIdleServices
    /\ documents = <<>>
    /\ job = InitJob
    /\ crawl = NewExecution(0)
    /\ cancel = [pc |-> "not_sent"]
    /\ create = [pc |-> "not_sent", url |-> None]
    /\ site \in {<<>>, LargeSite}
    /\ inverted_index = {}
    /\ document_stats = {}
    /\ collection_stats = {}
    /\ tasks = <<NewTask("index_document", <<1>>)>>
    /\ pool = 1
    /\ clock = 0

NextWorkers ==
    \/ MarkRunning
    \/ CrawlerYield
    \/ CrawlerEnd
    \/ CrawlerRaise
    \/ Progress
    \/ Lookup
    \/ BatchCommit
    \/ FinalCommit
    \/ MarkComplete
    \/ Handler
    \/ RunCrawlJobRetry
    \/ \E t \in TaskIds : StartTask(t)
    \/ \E t \in TaskIds : Load(t)
    \/ \E t \in TaskIds : Delete(t)
    \/ \E t \in TaskIds : Insert(t)
    \/ \E t \in TaskIds : Stats(t)
    \/ \E t \in TaskIds : Stamp(t)
    \/ \E t \in TaskIds : Commit(t)
    \/ \E t \in TaskIds : Vectors(t)
    \/ \E t \in TaskIds : Count(t)
    \/ \E t \in TaskIds : Avg(t)
    \/ \E t \in TaskIds : UpsertCollection(t)
    \/ \E t \in TaskIds : IndexRetry(t)

SpecWorkers == InitWorkers /\ [][NextWorkers]_vars

\* C7: the crawl job task and the index_document task are retried at most
\* 3 times, 4 executions each at most, and a task that has failed for good
\* has used its 3 retries and stays failed.
C7_RetriesCapped ==
    /\ [](/\ crawl.retries <= 3
          /\ (crawl.pc = "task_failed" => crawl.retries = 3)
          /\ \A t \in TaskIds :
               /\ tasks[t].retries <= 3
               /\ (tasks[t].kind = "index_document" /\ tasks[t].pc = "task_failed"
                     => tasks[t].retries = 3))
    /\ [][/\ crawl.pc = "task_failed" => crawl' = crawl
          /\ \A t \in TaskIds :
               tasks[t].pc = "task_failed" => tasks'[t] = tasks[t]]_vars

\* both tasks have failed for good after their third retry
C7_Witness ==
    /\ crawl.pc = "task_failed"
    /\ crawl.retries = 3
    /\ \E t \in TaskIds :
         /\ tasks[t].kind = "index_document"
         /\ tasks[t].pc = "task_failed"
         /\ tasks[t].retries = 3

----------------------------------------------------------------------------
(* GET /search and the result cache *)

\* search requests in flight
NumRequests == 2
\* documents a search can find
MaxTotal == 2

\* the default of the size parameter
DefaultSize == 10

Request(q, type, page, highlight) ==
    [q |-> q, type |-> type, page |-> page, size |-> DefaultSize,
     highlight |-> highlight, pc |-> "start", total |-> 0,
     response |-> <<>>]

\* the requests of the model: for str("ab") and str("abs"), which have
\* the same stemmed tokens, and for str("ba"); by either search type; for
\* the first and the second page; with and without highlighting
SearchRequests ==
    {Request(<<"a", "b">>, "bm25", 1, FALSE),
     Request(<<"a", "b", "s">>, "bm25", 1, TRUE),
     Request(<<"b", "a">>, "bm25", 1, FALSE),
     Request(<<"a", "b">>, "hybrid", 1, FALSE),
     Request(<<"a", "b", "s">>, "hybrid", 1, TRUE),
     Request(<<"a", "b">>, "bm25", 2, FALSE)}

RequestIds == DOMAIN requests

\* f"search:{type}:{processed['cache_key']}:p{page}:s{size}"
CacheKey(r) ==
    <<"search", r.type, ProcessQuery(r.q).cache_key, r.page, r.size>>

\* cache_get's redis.get(f"cache:{key}"): the entries stored under a key
Stored(key) == {e \in cache : e.key = <<"cache", key>>}

\* the entries formatted from the results, highlighted when asked for
FormattedResults(total, highlight) ==
    [n \in 1..total |-> [document_id |-> n, marked |-> highlight]]

Response(id, r) ==
    [query |-> r.q, query_id |-> id, type |-> r.type, page |-> r.page,
     size |-> r.size, total |-> r.total, cached |-> FALSE,
     results |-> FormattedResults(r.total, r.highlight)]

\* a cache that stores every response
ShouldCacheAlways(total) == TRUE

\* if total > 0: await cache_set(...)
ShouldCache(total) == total > 0

SetRequest(id, r) == requests' = [requests EXCEPT ![id] = r]

\* process_query, cache_get: on a hit the stored payload is returned with
\* cached set; a failing redis counts as a miss
CacheGet(id) ==
    /\ requests[id].pc = "start"
    /\ \E redisOk \in BOOLEAN :
         LET hits == IF redisOk THEN Stored(CacheKey(requests[id])) ELSE {}
         IN IF hits # {}
            THEN \E e \in hits :
                   SetRequest(id, [requests[id] EXCEPT
                       !.pc = "returned",
                       !.response = [e.value EXCEPT !.cached = TRUE]])
            ELSE SetRequest(id, [requests[id] EXCEPT !.pc = "search"])
    /\ UNCHANGED <<cache, notSearchVars>>

\* bm25_search, or hybrid_search with bm25_search when it raises
Search(id) ==
    /\ requests[id].pc = "search"
    /\ \E raised \in BOOLEAN, fallbackRaised \in BOOLEAN, total \in 0..MaxTotal :
         LET failed == IF requests[id].type = "hybrid"
                       THEN raised /\ fallbackRaised
                       ELSE raised
         IN IF failed
            THEN SetRequest(id, [requests[id] EXCEPT !.pc = "error"])
            ELSE SetRequest(id, [requests[id] EXCEPT !.pc = "log",
                                                     !.total = total])
    /\ UNCHANGED <<cache, notSearchVars>>

\* format the results; log_query and record_query_term
LogQuery(id) ==
    /\ requests[id].pc = "log"
    /\ \E dbOk \in BOOLEAN :
         IF dbOk
         THEN SetRequest(id, [requests[id] EXCEPT
                  !.pc = "respond",
                  !.response = Response(id, requests[id])])
         ELSE SetRequest(id, [requests[id] EXCEPT !.pc = "error"])
    /\ UNCHANGED <<cache, notSearchVars>>

\* if total > 0: cache_set, whose failure is logged; return response
Respond(id) ==
    /\ requests[id].pc = "respond"
    /\ LET r == requests[id]
           key == <<"cache", CacheKey(r)>>
       IN \E redisOk \in BOOLEAN :
            cache' = IF ShouldCache(r.total) /\ redisOk
                     THEN {e \in cache : e.key # key}
                              \cup {[key |-> key, value |-> r.response]}
                     ELSE cache
    /\ SetRequest(id, [requests[id] EXCEPT !.pc = "returned"])
    /\ UNCHANGED notSearchVars

\* redis drops an entry when its ttl of 300 seconds is over
Expire ==
    /\ \E e \in cache : cache' = cache \ {e}
    /\ UNCHANGED <<requests, notSearchVars>>

InitSearch ==
    /\ InitIdleCrawl
    /\ InitIdleServices
    /\ InitIdleIndex
    /\ InitIdleQuery
    /\ requests \in [1..NumRequests -> SearchRequests]
    /\ cache = {}

NextSearch ==
    \/ \E id \in RequestIds : CacheGet(id)
    \/ \E id \in RequestIds : Search(id)
    \/ \E id \in RequestIds : LogQuery(id)
    \/ \E id \in RequestIds : Respond(id)
    \/ Expire

SpecSearch == InitSearch /\ [][NextSearch]_vars

\* the request a cache entry was stored by
StoredBy(e) == requests[e.value.query_id]

\* C9: every entry of the result cache has total > 0 and was stored by a
\* request that returned its response; a request that hits the cache
\* returns the payload stored under its key with cached = true and stores
\* nothing; and a request that ends in an error stores nothing.
C9_CacheContract ==
    /\ [](\A e \in cache :
            /\ e.value.total > 0
            /\ e.value.cached = FALSE
            /\ StoredBy(e).pc = "returned")
    /\ [][\A id \in RequestIds :
            /\ requests[id].pc = "start" /\ requests'[id].pc = "returned" =>
                 /\ \E e \in cache :
                      /\ e.key = <<"cache", CacheKey(requests[id])>>
                      /\ requests'[id].response =
                             [e.value EXCEPT !.cached = TRUE]
                 /\ requests'[id].response.cached = TRUE
                 /\ cache' = cache
            /\ requests[id].pc # "error" /\ requests'[id].pc = "error" =>
                 cache' = cache
            /\ requests[id].pc = "error" => requests'[id] = requests[id]]_vars

\* a request has been answered from the cache with what another request,
\* for another query of the same stemmed tokens, has stored
C9_Witness ==
    \E id, other \in RequestIds :
        /\ id # other
        /\ requests[id].pc = "returned"
        /\ requests[id].response.cached = TRUE
        /\ requests[id].response.query_id = other
        /\ requests[id].response.query # requests[id].q
        /\ requests[id].response.total > 0

----------------------------------------------------------------------------
(* Autocomplete: the prefix trie *)

\* inserts made on one trie
MaxInserts == 3
\* the frequencies a term is inserted with: 1..MaxFrequency
MaxFrequency == 2
\* the limits search_prefix is called with: 0..MaxLimit
MaxLimit == 2

\* TrieNode.__init__; children holds the keys of the dict in insertion order
TrieNode == [children |-> <<>>, is_end |-> FALSE, term |-> <<>>, frequency |-> 0]

\* AutocompleteTrie.__init__: the nodes by their path from the root, the
\* root at the empty path
AutocompleteTrie == [nodes |-> (<<>> :> TrieNode), size |-> 0]

\* for char in term.lower(): the nodes on the way, made where missing
InsertPath(t, term) ==
    LET path == Lower(term)
        onPath == {SubSeq(path, 1, i) : i \in 0..Len(path)}
    IN [q \in DOMAIN t.nodes \cup onPath |->
          LET node == IF q \in DOMAIN t.nodes THEN t.nodes[q] ELSE TrieNode
          IN IF q \in onPath /\ Len(q) < Len(path)
                /\ path[Len(q) + 1] \notin ToSet(node.children)
             THEN [node EXCEPT !.children = Append(@, path[Len(q) + 1])]
             ELSE node]

\* AutocompleteTrie.insert
TrieInsert(t, term, frequency) ==
    [nodes |-> [InsertPath(t, term) EXCEPT ![Lower(term)] =
                   [@ EXCEPT !.is_end = TRUE, !.term = term,
                             !.frequency = frequency]],
     size |-> t.size + 1]

\* no node: the walk of search_prefix has left the trie
NoNode == <<None>>

\* the walk of search_prefix down the lowercased prefix: the node reached
RECURSIVE Descend(_, _, _)
Descend(t, node, rest) ==
    IF rest = <<>> THEN node
    ELSE IF Head(rest) \notin ToSet(t.nodes[node].children) THEN NoNode
    ELSE Descend(t, Append(node, Head(rest)), Tail(rest))

\* AutocompleteTrie._dfs from the i-th child of node on
RECURSIVE Dfs(_, _, _)
Dfs(t, node, i) ==
    LET n == t.nodes[node]
    IN (IF i = 0 /\ n.is_end
        THEN <<[term |-> n.term, frequency |-> n.frequency]>> ELSE <<>>)
       \o (IF i = 0 THEN (IF n.children = <<>> THEN <<>> ELSE Dfs(t, node, 1))
           ELSE Dfs(t, Append(node, n.children[i]), 0)
                \o (IF i < Len(n.children) THEN Dfs(t, node, i + 1)
                    ELSE <<>>))

\* a sort key that puts the rare terms first
KeyLessAscending(x, y) ==
    \/ x.frequency < y.frequency
    \/ x.frequency = y.frequency /\ StrLess(x.term, y.term)

\* key(x) < key(y) for the key (-frequency, term) of results.sort
SortKeyLess(x, y) ==
    \/ x.frequency > y.frequency
    \/ x.frequency = y.frequency /\ StrLess(x.term, y.term)

\* list.sort(key): stable, the first of the least entries comes first
RECURSIVE SortResults(_)
SortResults(results) ==
    IF results = <<>> THEN <<>>
    ELSE LET m == CHOOSE i \in DOMAIN results :
                     /\ \A j \in DOMAIN results :
                            ~SortKeyLess(results[j], results[i])
                     /\ \A j \in 1..(i - 1) :
                            SortKeyLess(results[i], results[j])
         IN <<results[m]>>
            \o SortResults([j \in 1..(Len(results) - 1) |->
                              IF j < m THEN results[j] ELSE results[j + 1]])

\* xs[:limit]
Slice(xs, limit) ==
    IF limit >= 0 THEN SubSeq(xs, 1, IF limit < Len(xs) THEN limit ELSE Len(xs))
    ELSE SubSeq(xs, 1, IF Len(xs) + limit > 0 THEN Len(xs) + limit ELSE 0)

\* AutocompleteTrie.search_prefix
SearchPrefix(t, prefix, limit) ==
    LET node == Descend(t, <<>>, Lower(prefix))
    IN IF node = NoNode THEN <<>>
       ELSE Slice(SortResults(Dfs(t, node, 0)), limit)

\* the terms the trie is fed: str("a"), "ab", "Ab", "b", "ba"
TrieTerms ==
    {<<"a">>, Str2("a", "b"), Str2("A", "b"), <<"b">>, Str2("b", "a")}

\* the prefixes looked up: "", "a", "A", "ab", "b", "s"
Prefixes == {<<>>, <<"a">>, <<"A">>, Str2("a", "b"), <<"b">>, <<"s">>}

\* trie.insert(term, frequency) on the trie under test
InsertTerm(term, frequency) ==
    /\ trie[1].size < MaxInserts
    /\ trie' = <<TrieInsert(trie[1], term, frequency)>>
    /\ searched' = <<>>
    /\ UNCHANGED <<autocomplete_terms, readers, writers, notAutocompleteVars>>

\* results = trie.search_prefix(prefix, limit)
CallSearchPrefix(prefix, limit) ==
    /\ searched' = <<[prefix |-> prefix, limit |-> limit,
                      results |-> SearchPrefix(trie[1], prefix, limit)]>>
    /\ UNCHANGED <<autocomplete_terms, trie, readers, writers,
                   notAutocompleteVars>>

\* all of the crawl, query, index and search parts at rest
InitIdleCore ==
    /\ InitIdleCrawl
    /\ InitIdleQuery
    /\ InitIdleIndex
    /\ InitIdleSearch

InitTrie ==
    /\ InitIdleCore
    /\ InitIdleRag
    /\ InitIdleVectors
    /\ InitIdleRank
    /\ InitIdleUtil
    /\ autocomplete_terms = {}
    /\ trie = <<AutocompleteTrie>>
    /\ searched = <<>>
    /\ readers = <<>>
    /\ writers = <<>>

NextTrie ==
    \/ \E term \in TrieTerms, frequency \in 1..MaxFrequency :
           InsertTerm(term, frequency)
    \/ \E prefix \in Prefixes, limit \in 0..MaxLimit :
           CallSearchPrefix(prefix, limit)

SpecTrie == InitTrie /\ [][NextTrie]_vars

\* the entries of the terms stored in the trie: its terminal nodes
StoredEntries(t) ==
    {[term |-> t.nodes[q].term, frequency |-> t.nodes[q].frequency] :
        q \in {p \in DOMAIN t.nodes : t.nodes[p].is_end}}

\* prefix.lower() is a prefix of term.lower()
StartsWithLower(term, prefix) ==
    /\ Len(prefix) <= Len(term)
    /\ SubSeq(Lower(term), 1, Len(prefix)) = Lower(prefix)

\* entry x ranks before entry y: more frequent, or as frequent and of the
\* lesser term
RanksBefore(x, y) ==
    \/ x.frequency > y.frequency
    \/ x.frequency = y.frequency /\ StrLess(x.term, y.term)

\* C13: search_prefix(p, n) returns at most n entries, in non-increasing
\* frequency order with ties in ascending order of the term; every term
\* returned, lowercased, starts with p lowercased; the entries are the n
\* best-ranked of all the stored terms with that prefix (all of them when
\* there are fewer than n); a prefix no stored term has returns the empty
\* list.
C13_SearchPrefix ==
    \A i \in DOMAIN searched :
        LET call == searched[i]
            results == call.results
            matching == {e \in StoredEntries(trie[1]) :
                            StartsWithLower(e.term, call.prefix)}
        IN /\ Len(results) <= call.limit
           /\ \A j \in 1..(Len(results) - 1) :
                  RanksBefore(results[j], results[j + 1])
           /\ \A j \in DOMAIN results :
                  StartsWithLower(results[j].term, call.prefix)
           /\ ToSet(results) \subseteq matching
           /\ Len(results) =
                  (IF Cardinality(matching) < call.limit
                   THEN Cardinality(matching) ELSE call.limit)
           /\ \A e \in matching \ ToSet(results) :
                  \A j \in DOMAIN results : RanksBefore(results[j], e)
           /\ (matching = {} => results = <<>>)

\* a search that had to rank and to cut: two terms of equal frequency were
\* returned in the order of the terms, one of them stored with a capital
\* letter, and a matching term was left out for the limit
C13_Witness ==
    \E i \in DOMAIN searched :
        LET call == searched[i]
        IN /\ Len(call.results) = 2
           /\ call.results[1].frequency = call.results[2].frequency
           /\ \E j \in 1..2 :
                  call.results[j].term # Lower(call.results[j].term)
           /\ \E e \in StoredEntries(trie[1]) :
                  /\ StartsWithLower(e.term, call.prefix)
                  /\ e \notin ToSet(call.results)

\* C14: after any sequence of inserts, size is the number of terms stored
\* in the trie, which is the number of entries search_prefix("", unbounded)
\* returns; the empty trie has size 0.
C14_SizeCountsTerms ==
    /\ trie[1].size = Cardinality(StoredEntries(trie[1]))
    /\ trie[1].size = Len(SearchPrefix(trie[1], <<>>, MaxInserts + 1))

----------------------------------------------------------------------------
(* Autocomplete: the process-wide trie, its readers and its writers.       *)
(* The requests of one server process are coroutines of one event loop: a  *)
(* request runs alone from one await to the next.                          *)

\* GET /autocomplete requests in flight
NumReaders == 2
\* GET /search requests that record their query
NumWriters == 1
\* limit: int = Query(5) of GET /autocomplete
DefaultLimit == 5

ReaderIds == 1..NumReaders
WriterIds == 1..NumWriters

\* the prefixes asked for: str("a"), "s"
ReaderPrefixes == {<<"a">>, <<"s">>}

\* the queries recorded: str(" Ab"), "ba", "a"
WriterQueries == {Str3(" ", "A", "b"), Str2("b", "a"), <<"a">>}

\* the term stores the server starts on
TermStores ==
    {{}, {[term |-> Str2("a", "b"), frequency |-> 1]},
     {[term |-> Str2("a", "b"), frequency |-> 2],
      [term |-> <<"a", "b", "s">>, frequency |-> 2]}}

\* the results of select(AutocompleteTerm).order_by(frequency.desc()): every
\* order of the rows by falling frequency
SelectTerms(rows) ==
    {xs \in [1..Cardinality(rows) -> rows] :
        /\ ToSet(xs) = rows
        /\ \A i \in 1..(Len(xs) - 1) : xs[i].frequency >= xs[i + 1].frequency}

\* _build_trie after the select: the rows inserted into a new trie, in order
RECURSIVE BuildTrie(_, _)
BuildTrie(t, rows) ==
    IF rows = <<>> THEN t
    ELSE BuildTrie(TrieInsert(t, Head(rows).term, Head(rows).frequency),
                   Tail(rows))

\* autocomplete_search once it holds the trie: the results of the trie if
\* there are any, else on to the fallback
SearchTrie(r, t) ==
    LET results == SearchPrefix(t, readers[r].prefix, readers[r].limit)
    IN readers' = [readers EXCEPT ![r].results = results,
                                  ![r].pc = IF results # <<>> THEN "done"
                                            ELSE "trigram"]

\* autocomplete_search up to its first await: get_trie returns the global
\* trie, or calls _build_trie, which awaits its select
GetTrie(r) ==
    /\ readers[r].pc = "start"
    /\ IF trie = <<>> \/ trie[1].size = 0
       THEN readers' = [readers EXCEPT ![r].pc = "select"]
       ELSE SearchTrie(r, trie[1])
    /\ UNCHANGED <<autocomplete_terms, trie, searched, writers,
                   notAutocompleteVars>>

\* the select of _build_trie runs in the database
BuildTrieSelect(r) ==
    /\ readers[r].pc = "select"
    /\ \E rows \in SelectTerms(autocomplete_terms) :
           readers' = [readers EXCEPT ![r].rows = rows, ![r].pc = "built"]
    /\ UNCHANGED <<autocomplete_terms, trie, searched, writers,
                   notAutocompleteVars>>

\* _build_trie resumes with the rows, get_trie assigns the global and
\* autocomplete_search searches the trie
AssignTrie(r) ==
    /\ readers[r].pc = "built"
    /\ trie' = <<BuildTrie(AutocompleteTrie, readers[r].rows)>>
    /\ SearchTrie(r, trie'[1])
    /\ UNCHANGED <<autocomplete_terms, searched, writers, notAutocompleteVars>>

\* _trigram_search: term ILIKE prefix%, ORDER BY frequency DESC, term ASC
TrigramSearch(r) ==
    /\ readers[r].pc = "trigram"
    /\ LET rows == {e \in autocomplete_terms :
                       StartsWithLower(e.term, readers[r].prefix)}
       IN readers' = [readers EXCEPT
              ![r].results = Slice(SortResults(CHOOSE xs \in SelectTerms(rows) :
                                                   TRUE),
                                   readers[r].limit),
              ![r].pc = "done"]
    /\ UNCHANGED <<autocomplete_terms, trie, searched, writers,
                   notAutocompleteVars>>

\* record_query_term up to the return of its commit: the upsert of the term
RecordQueryTerm(w) ==
    /\ writers[w].pc = "start"
    /\ LET term == Lower(Strip(writers[w].query))
       IN IF term = <<>> \/ Len(term) < 2
          THEN /\ writers' = [writers EXCEPT ![w].pc = "done"]
               /\ UNCHANGED autocomplete_terms
          ELSE /\ autocomplete_terms' =
                     IF \E e \in autocomplete_terms : e.term = term
                     THEN {IF e.term = term
                           THEN [e EXCEPT !.frequency = @ + 1] ELSE e :
                              e \in autocomplete_terms}
                     ELSE autocomplete_terms
                              \cup {[term |-> term, frequency |-> 1]}
               /\ writers' = [writers EXCEPT ![w].pc = "committed"]
    /\ UNCHANGED <<trie, searched, readers, notAutocompleteVars>>

\* rebuild_trie, called by record_query_term after its commit
RebuildTrie(w) ==
    /\ writers[w].pc = "committed"
    /\ trie' = <<>>
    /\ writers' = [writers EXCEPT ![w].pc = "done"]
    /\ UNCHANGED <<autocomplete_terms, searched, readers, notAutocompleteVars>>

InitAutocomplete ==
    /\ InitIdleCore
    /\ InitIdleRag
    /\ InitIdleVectors
    /\ InitIdleRank
    /\ InitIdleUtil
    /\ autocomplete_terms \in TermStores
    /\ trie = <<>>
    /\ searched = <<>>
    /\ readers \in [ReaderIds -> [pc : {"start"}, prefix : ReaderPrefixes,
                                  limit : {DefaultLimit}, rows : {<<>>},
                                  results : {<<>>}]]
    /\ writers \in [WriterIds -> [pc : {"start"}, query : WriterQueries]]

NextAutocomplete ==
    \/ \E r \in ReaderIds : GetTrie(r)
    \/ \E r \in ReaderIds : BuildTrieSelect(r)
    \/ \E r \in ReaderIds : AssignTrie(r)
    \/ \E r \in ReaderIds : TrigramSearch(r)
    \/ \E w \in WriterIds : RecordQueryTerm(w)
    \/ \E w \in WriterIds : RebuildTrie(w)

SpecAutocomplete == InitAutocomplete /\ [][NextAutocomplete]_vars

\* a reader is rebuilding: between the call of _build_trie and the
\* assignment of its trie to the global
Rebuilding(r) == readers[r].pc \in {"select", "built"}

\* C11: a reader that starts when every write to the term store has
\* completed (record_query_term has returned) rebuilds the trie from the
\* store, or searches a trie that holds every stored term with its
\* frequency; also when a write has interleaved with a rebuild.
C11_ReaderSeesWrites ==
    [][\A r \in ReaderIds :
          /\ readers[r].pc = "start" /\ readers'[r].pc # "start"
          /\ \A w \in WriterIds : writers[w].pc # "committed"
          => \/ readers'[r].pc = "select"
             \/ StoredEntries(trie[1]) = autocomplete_terms]_vars

\* C12: at most one reader is rebuilding the trie at any time, and a reader
\* that starts while another is rebuilding is served from the trie in place
\* and starts no rebuild of its own.
C12_OneRebuilder ==
    /\ [](Cardinality({r \in ReaderIds : Rebuilding(r)}) <= 1)
    /\ [][\A r \in ReaderIds :
             /\ readers[r].pc = "start" /\ readers'[r].pc # "start"
             /\ \E other \in ReaderIds \ {r} : Rebuilding(other)
             => ~Rebuilding(r)']_vars

----------------------------------------------------------------------------
(* Recursive RAG: POST /search/rag with recursive = true *)

\* max_depth of the request body: -1..MaxDepthAsked
MaxDepthAsked == 4
\* lines in the reply of the LLM to the follow-up prompt, at most
MaxLines == 4
\* contexts one retrieval returns in the model, at most
MaxContexts == 2

\* min(int(max_depth), 3) of search_rag
DepthCap == 3
\* queries[:3] of generate_follow_up_queries
FollowUpCap == 3
\* top_k of recursive_rag, as search_rag calls it
TopK == 5
\* all_contexts[:10] of the response
SourcesCap == 10

\* a RetrievedContext of document d; its relevance is d
Context(d) == [document_id |-> d, relevance_score |-> d]

\* what retrieve_context can return: contexts of distinct documents, the
\* most relevant first
Retrievals ==
    {xs \in UNION {[1..n -> {Context(d) : d \in 1..MaxContexts}] :
                      n \in 0..MaxContexts} :
        \A i \in 1..(Len(xs) - 1) :
            xs[i].relevance_score > xs[i + 1].relevance_score}

\* the replies of the LLM to the follow-up prompt, as their non-blank lines:
\* 0..MaxLines lines str("f")
Replies == {[i \in 1..n |-> <<"f">>] : n \in 0..MaxLines}

\* follow-ups that are not cut
Uncapped(lines) == lines

\* return queries[:3]
CapFollowUps(lines) == Slice(lines, FollowUpCap)

\* list.sort(key = relevance_score, reverse = True): stable
RECURSIVE SortContexts(_)
SortContexts(cs) ==
    IF cs = <<>> THEN <<>>
    ELSE LET m == CHOOSE i \in DOMAIN cs :
                     /\ \A j \in DOMAIN cs :
                            cs[j].relevance_score <= cs[i].relevance_score
                     /\ \A j \in 1..(i - 1) :
                            cs[j].relevance_score < cs[i].relevance_score
         IN <<cs[m]>> \o SortContexts([j \in 1..(Len(cs) - 1) |->
                                         IF j < m THEN cs[j] ELSE cs[j + 1]])

\* the deduplication loop of recursive_rag: the new contexts of documents
\* not seen are appended
RECURSIVE Deduplicate(_, _)
Deduplicate(all_contexts, new_contexts) ==
    IF new_contexts = <<>> THEN all_contexts
    ELSE Deduplicate(
             IF \E c \in ToSet(all_contexts) :
                    c.document_id = Head(new_contexts).document_id
             THEN all_contexts
             ELSE Append(all_contexts, Head(new_contexts)),
             Tail(new_contexts))

\* the answers generate_answer can give on its n-th call: the fixed
\* sentence without contexts, else the reply of the LLM or, when the LLM
\* fails, the fallback made of the first three contexts
Answers(contexts, n) ==
    IF contexts = <<>> THEN {[by |-> "no_context", call |-> n]}
    ELSE {[by |-> "llm", call |-> n], [by |-> "fallback", call |-> n]}

NoAnswer == [by |-> "empty_string", call |-> 0]

\* search_rag up to the first await of recursive_rag
SearchRag ==
    /\ rag.pc = "sent"
    /\ IF rag.query = <<>>
       THEN rag' = [rag EXCEPT !.pc = "error"]
       ELSE rag' = [rag EXCEPT
                !.pc = "retrieve",
                !.max_depth = IF rag.asked < DepthCap THEN rag.asked
                              ELSE DepthCap,
                !.all_contexts = <<>>,
                !.queries_executed = <<rag.query>>,
                !.current_answer = NoAnswer,
                !.depth = 0]
    /\ UNCHANGED notRagVars

\* contexts = await retrieve_context(query, db, top_k): it returns, or the
\* database raises
InitialRetrieval ==
    /\ rag.pc = "retrieve"
    /\ \/ \E contexts \in Retrievals :
              rag' = [rag EXCEPT !.pc = "generate",
                                 !.all_contexts = contexts,
                                 !.best_contexts = contexts]
       \/ rag' = [rag EXCEPT !.pc = "raised"]
    /\ UNCHANGED notRagVars

\* result = await generate_answer(query, contexts), the first time and in
\* the loop
GenerateAnswer ==
    /\ rag.pc = "generate"
    /\ \E answer \in Answers(rag.best_contexts, rag.calls + 1) :
           rag' = [rag EXCEPT !.pc = "loop", !.current_answer = answer,
                              !.calls = @ + 1]
    /\ UNCHANGED notRagVars

\* the depth of an iteration that is not counted
DepthNotCounted(depth) == depth

\* depth += 1
NextDepth(depth) == depth + 1

\* while depth < max_depth: depth += 1, up to the await of the follow-ups;
\* after the loop, the return of the result
LoopTest ==
    /\ rag.pc = "loop"
    /\ IF rag.depth < rag.max_depth
       THEN rag' = [rag EXCEPT !.pc = "follow_ups",
                               !.depth = NextDepth(rag.depth)]
       ELSE rag' = [rag EXCEPT !.pc = "returned"]
    /\ UNCHANGED notRagVars

\* follow_ups = await generate_follow_up_queries(query, current_answer):
\* the lines of the reply, cut; [] when the LLM fails; without follow-ups
\* the loop is left
FollowUps ==
    /\ rag.pc = "follow_ups"
    /\ \E reply \in Replies :
           LET follow_ups == CapFollowUps(reply)
           IN rag' = [rag EXCEPT
                  !.pc = IF follow_ups = <<>> THEN "returned"
                         ELSE "retrieve_follow_up",
                  !.follow_ups = follow_ups,
                  !.new_contexts = <<>>]
    /\ UNCHANGED notRagVars

\* for fq in follow_ups: one round of the loop, and after the last one the
\* code up to the next await: no new contexts leave the loop, else they are
\* merged, ranked and cut
RetrieveFollowUp ==
    /\ rag.pc = "retrieve_follow_up"
    /\ \/ \E fq_contexts \in Retrievals :
              LET new_contexts == rag.new_contexts \o fq_contexts
                  rest == Tail(rag.follow_ups)
                  merged == SortContexts(Deduplicate(rag.all_contexts,
                                                     new_contexts))
              IN rag' = [rag EXCEPT
                     !.queries_executed = Append(@, Head(rag.follow_ups)),
                     !.follow_ups = rest,
                     !.new_contexts = new_contexts,
                     !.pc = IF rest # <<>> THEN "retrieve_follow_up"
                            ELSE IF new_contexts = <<>> THEN "returned"
                            ELSE "generate",
                     !.all_contexts = IF rest = <<>> /\ new_contexts # <<>>
                                      THEN merged ELSE @,
                     !.best_contexts = IF rest = <<>> /\ new_contexts # <<>>
                                       THEN Slice(merged, TopK * 2) ELSE @]
       \/ rag' = [rag EXCEPT
              !.queries_executed = Append(@, Head(rag.follow_ups)),
              !.pc = "raised"]
    /\ UNCHANGED notRagVars

\* the dict recursive_rag returns
RagResult ==
    [answer |-> rag.current_answer,
     sources |-> Slice(rag.all_contexts, SourcesCap),
     depth_reached |-> rag.depth,
     queries_executed |-> rag.queries_executed]

InitRag ==
    /\ InitIdleCore
    /\ InitIdleAutocomplete
    /\ InitIdleVectors
    /\ InitIdleRank
    /\ InitIdleUtil
    /\ rag \in [pc : {"sent"}, query : {<<>>, <<"a">>},
                asked : -1..MaxDepthAsked, max_depth : {0}, depth : {0},
                all_contexts : {<<>>}, best_contexts : {<<>>},
                queries_executed : {<<>>}, current_answer : {NoAnswer},
                calls : {0}, follow_ups : {<<>>}, new_contexts : {<<>>}]

NextRag ==
    \/ SearchRag
    \/ InitialRetrieval
    \/ GenerateAnswer
    \/ LoopTest
    \/ FollowUps
    \/ RetrieveFollowUp

\* every awaited call returns or raises
SpecRag == InitRag /\ [][NextRag]_vars /\ WF_vars(NextRag)

\* the request is over: answered, refused, or ended by an exception
RagOver == rag.pc \in {"returned", "raised", "error"}

DepthBound ==
    IF rag.asked < 0 THEN 0
    ELSE IF rag.asked < DepthCap THEN rag.asked ELSE DepthCap

C16_NoFollowUps ==
    [][rag.pc = "follow_ups" /\ rag.calls = 1 /\ rag'.pc # "follow_ups"
       /\ rag'.follow_ups = <<>>
       => /\ rag'.pc = "returned"
          /\ RagResult'.depth_reached = 1
          /\ RagResult'.answer = rag.current_answer
          /\ RagResult'.answer.call = 1
          /\ RagResult'.queries_executed = <<rag.query>>]_vars

\* a request for depth 2 and more has returned after one iteration without
\* follow-ups, with the fallback answer of an LLM that is not available
C16_Witness ==
    /\ rag.pc = "returned"
    /\ rag.asked >= 2
    /\ rag.depth = 1
    /\ rag.calls = 1
    /\ rag.queries_executed = <<rag.query>>
    /\ rag.current_answer.by = "fallback"

----------------------------------------------------------------------------
(* Vector index: chunk_text and index_document_vectors *)

\* settings.chunk_size and settings.chunk_overlap, in words, scaled to the
\* texts of the model (512 and 50 by default)
ChunkSize == 2
ChunkOverlap == 1

\* str.split(): the maximal runs of characters that are not blanks; run is
\* the run being read
RECURSIVE Split(_, _)
Split(text, run) ==
    IF text = <<>> THEN (IF run = <<>> THEN <<>> ELSE <<run>>)
    ELSE IF IsSpace(Head(text))
         THEN (IF run = <<>> THEN <<>> ELSE <<run>>) \o Split(Tail(text), <<>>)
    ELSE Split(Tail(text), Append(run, Head(text)))

\* the while loop of chunk_text from the word offset start on
RECURSIVE ChunkLoop(_, _, _, _)
ChunkLoop(words, start, chunk_size, chunk_overlap) ==
    IF start < Len(words)
    THEN LET end == IF start + chunk_size < Len(words)
                    THEN start + chunk_size ELSE Len(words)
         IN <<Join(SubSeq(words, start + 1, end))>>
            \o ChunkLoop(words, start + chunk_size - chunk_overlap,
                         chunk_size, chunk_overlap)
    ELSE <<>>

\* chunk_text, for chunk_overlap < chunk_size
ChunkText(text, chunk_size, chunk_overlap) ==
    IF text = <<>> THEN <<>>
    ELSE IF Len(Split(text, <<>>)) <= chunk_size THEN <<text>>
    ELSE ChunkLoop(Split(text, <<>>), 0, chunk_size, chunk_overlap)

\* the rows of document_embeddings of chunks of document d; the vector of a
\* row is a function of its chunk_text and is left out
EmbeddingRows(d, chunks) ==
    {[document_id |-> d, chunk_index |-> i - 1, chunk_text |-> chunks[i]] :
        i \in DOMAIN chunks}

\* a session with the embeddings of a document already deleted
DeletedBeforeEmbedding(d) == [deleted |-> {d}, added |-> {}]

\* what the session of index_document_vectors holds uncommitted when
\* generate_embeddings is called: nothing, the delete comes after it
PendingAtEmbedding(d) == [deleted |-> {}, added |-> {}]

\* the table after the commit of a session
CommitEmbeddings(tx) ==
    {row \in document_embeddings : row.document_id \notin tx.deleted}
        \cup tx.added

\* index_document_vectors from the return of its select to its next await:
\* no document or no text returns 0; the text is chunked and embedded; a
\* failure of the embedding is logged and returns 0
VectorsEmbed ==
    /\ vectors.pc = "select"
    /\ LET d == vectors.doc_id
           chunks == IF d \in DOMAIN documents
                     THEN ChunkText(documents[d].clean_content, ChunkSize,
                                    ChunkOverlap)
                     ELSE <<>>
       IN IF d \notin DOMAIN documents \/ documents[d].clean_content = <<>>
             \/ chunks = <<>>
          THEN vectors' = [vectors EXCEPT !.pc = "returned", !.result = 0,
                                          !.outcome = "nothing_to_index"]
          ELSE \/ vectors' = [vectors EXCEPT
                      !.pc = "returned", !.result = 0,
                      !.tx = PendingAtEmbedding(d),
                      !.outcome = "embedding_failure"]
               \/ vectors' = [vectors EXCEPT
                      !.pc = "delete", !.chunks = chunks,
                      !.tx = PendingAtEmbedding(d)]
    /\ UNCHANGED <<document_embeddings, notVectorVars>>

\* await db.execute(delete(DocumentEmbedding)...): it runs, or it raises
VectorsDelete ==
    /\ vectors.pc = "delete"
    /\ \/ vectors' = [vectors EXCEPT !.pc = "commit",
                                     !.tx.deleted = @ \cup {vectors.doc_id}]
       \/ vectors' = [vectors EXCEPT !.pc = "raised", !.outcome = "db_error"]
    /\ UNCHANGED <<document_embeddings, notVectorVars>>

\* db.add of a row for every chunk, await db.commit(), return len(chunks);
\* or the commit raises and nothing is stored
VectorsCommit ==
    /\ vectors.pc = "commit"
    /\ LET tx == [vectors.tx EXCEPT
                     !.added = EmbeddingRows(vectors.doc_id, vectors.chunks)]
       IN \/ /\ document_embeddings' = CommitEmbeddings(tx)
             /\ vectors' = [vectors EXCEPT
                    !.pc = "returned", !.result = Len(vectors.chunks),
                    !.tx = [deleted |-> {}, added |-> {}],
                    !.outcome = "stored"]
          \/ /\ UNCHANGED document_embeddings
             /\ vectors' = [vectors EXCEPT !.pc = "raised",
                                           !.outcome = "db_error"]
    /\ UNCHANGED notVectorVars

\* the caller goes on with the session after the return:
\* update_collection_stats commits it
CallerCommit ==
    /\ vectors.pc = "returned"
    /\ document_embeddings' = CommitEmbeddings(vectors.tx)
    /\ vectors' = [vectors EXCEPT !.pc = "committed",
                                  !.tx = [deleted |-> {}, added |-> {}]]
    /\ UNCHANGED notVectorVars

\* the embeddings a document can have from earlier runs: none, one chunk of
\* the whole text, or the chunks of the current settings
EarlierEmbeddings(d) ==
    {{}, EmbeddingRows(d, <<ContentOf(d)>>),
     EmbeddingRows(d, ChunkText(ContentOf(d), ChunkSize, ChunkOverlap))}

InitVectors ==
    /\ InitIdleQuery
    /\ InitIdleIndex
    /\ InitIdleSearch
    /\ InitIdleAutocomplete
    /\ InitIdleRag
    /\ InitIdleRank
    /\ InitIdleUtil
    /\ InitDocuments
    /\ job = InitJob
    /\ crawl = [NewExecution(0) EXCEPT !.pc = "not_queued"]
    /\ cancel = [pc |-> "not_sent"]
    /\ create = [pc |-> "not_sent", url |-> None]
    /\ site = <<>>
    /\ \E earlier \in [1..NumDocs -> UNION {EarlierEmbeddings(d) :
                                               d \in 1..NumDocs}] :
           /\ \A d \in 1..NumDocs : earlier[d] \in EarlierEmbeddings(d)
           /\ document_embeddings = UNION {earlier[d] : d \in 1..NumDocs}
    /\ vectors \in [pc : {"select"}, doc_id : 1..(NumDocs + 1),
                    chunks : {<<>>}, tx : {[deleted |-> {}, added |-> {}]},
                    outcome : {"running"}, result : {0}]

NextVectors ==
    \/ VectorsEmbed
    \/ VectorsDelete
    \/ VectorsCommit
    \/ CallerCommit

SpecVectors == InitVectors /\ [][NextVectors]_vars

\* the rows of document_embeddings of document d
EmbeddingsOf(rows, d) == {row \in rows : row.document_id = d}

\* C17: when the embedding fails in index_document_vectors, the call
\* returns (0) without an exception, and the stored embeddings of the
\* document stay as they were before the call, also after the caller's
\* next commit.
C17_FailureKeepsEmbeddings ==
    /\ [](vectors.outcome = "embedding_failure" =>
              /\ vectors.pc \in {"returned", "committed"}
              /\ vectors.result = 0)
    /\ [][vectors'.outcome = "embedding_failure" =>
              EmbeddingsOf(document_embeddings', vectors.doc_id)
                  = EmbeddingsOf(document_embeddings, vectors.doc_id)]_vars

\* the embedding has failed for a document that had embeddings, and the
\* caller has committed its session since
C17_Witness ==
    /\ vectors.outcome = "embedding_failure"
    /\ vectors.pc = "committed"
    /\ EmbeddingsOf(document_embeddings, vectors.doc_id) # {}

----------------------------------------------------------------------------
(* Semantic search and hybrid search (Reciprocal Rank Fusion) *)

\* the documents d1..d4 that can be ranked
RankedDocs == 1..4
\* results a search returns in the model, at most
MaxListLen == 3

\* settings.rrf_k
RrfK == 60
\* settings.max_search_results
MaxSearchResults == 100

\* None, for a rank
NoRank == 0

\* the result lists bm25_search can return: documents, each once at most
RankedLists ==
    {xs \in UNION {[1..n -> RankedDocs] : n \in 0..MaxListLen} :
        \A i, j \in DOMAIN xs : i # j => xs[i] # xs[j]}

\* the rows of the nearest-neighbour query of semantic_search, the nearest
\* first: chunks of documents, a document as often as it has chunks near
ChunkRows ==
    {[i \in DOMAIN ids |-> [document_id |-> ids[i],
                            similarity |-> Len(ids) - i]] :
        ids \in UNION {[1..n -> RankedDocs] : n \in 0..MaxListLen}}

\* the loop over the rows in semantic_search: the best chunk per document,
\* in the order of the dict
RECURSIVE BestPerDoc(_, _)
BestPerDoc(best, rows) ==
    IF rows = <<>> THEN best
    ELSE LET row == Head(rows)
             at == {i \in DOMAIN best :
                       best[i].document_id = row.document_id}
         IN BestPerDoc(
                IF at = {} THEN Append(best, row)
                ELSE [i \in DOMAIN best |->
                         IF i \in at /\ row.similarity > best[i].similarity
                         THEN row ELSE best[i]],
                Tail(rows))

\* sorted(best_per_doc.items(), key = score, reverse = True): stable
RECURSIVE SortBySimilarity(_)
SortBySimilarity(rows) ==
    IF rows = <<>> THEN <<>>
    ELSE LET m == CHOOSE i \in DOMAIN rows :
                     /\ \A j \in DOMAIN rows :
                            rows[j].similarity <= rows[i].similarity
                     /\ \A j \in 1..(i - 1) :
                            rows[j].similarity < rows[i].similarity
         IN <<rows[m]>> \o SortBySimilarity([j \in 1..(Len(rows) - 1) |->
                                IF j < m THEN rows[j] ELSE rows[j + 1]])

\* xs[offset : offset + size]
Page(xs, page, size) ==
    LET offset == (page - 1) * size
    IN IF offset >= Len(xs) THEN <<>>
       ELSE SubSeq(xs, offset + 1,
                   IF offset + size < Len(xs) THEN offset + size ELSE Len(xs))

\* a semantic search that answers with the nearest chunks although the
\* query could not be embedded
SemanticSearchIgnoringFailure(embedded, rows, page, size) ==
    [results |-> [i \in DOMAIN rows |-> rows[i].document_id],
     total |-> Len(rows)]

\* semantic_search: the document ids of its results, and its total;
\* embedded tells whether generate_single_embedding returned or raised
SemanticSearch(embedded, rows, page, size) ==
    IF ~embedded \/ rows = <<>> THEN [results |-> <<>>, total |-> 0]
    ELSE LET sorted_docs == SortBySimilarity(BestPerDoc(<<>>, rows))
             page_docs == Page(sorted_docs, page, size)
             found == SelectSeq(page_docs,
                                LAMBDA r : r.document_id \in DOMAIN documents)
         IN [results |-> [i \in DOMAIN found |-> found[i].document_id],
             total |-> Len(sorted_docs)]

\* the rank of a zero-based enumerate
RankFromZero(xs, d) ==
    IF \E i \in DOMAIN xs : xs[i] = d
    THEN (CHOOSE i \in DOMAIN xs : xs[i] = d) - 1 ELSE NoRank

\* the rank maps of hybrid_search: enumerate(results, 1); a document in no
\* result has no rank
Rank(xs, d) ==
    IF \E i \in DOMAIN xs : xs[i] = d
    THEN CHOOSE i \in DOMAIN xs : xs[i] = d ELSE NoRank

\* a / b + c / d
Plus(x, y) == Quotient(x.num * y.den + y.num * x.den, x.den * y.den)

\* the RRF score of a document of ranks bm25_rank and semantic_rank
RrfScore(k, bm25_rank, semantic_rank) ==
    Plus(IF bm25_rank # NoRank THEN Quotient(1, k + bm25_rank)
         ELSE Quotient(0, 1),
         IF semantic_rank # NoRank THEN Quotient(1, k + semantic_rank)
         ELSE Quotient(0, 1))

\* round(x, 6), in millionths
Round6(x) == (2 * 1000000 * x.num + x.den) \div (2 * x.den)

\* an order that puts the low scores first
LowerFirst(x, y) == x.num * y.den <= y.num * x.den

\* x can stand before y in sorted(..., key = score, reverse = True)
HigherFirst(x, y) == x.num * y.den >= y.num * x.den

\* sorted(rrf_scores.items(), ...): the documents of the set all_doc_ids by
\* falling score; documents of equal score stand in the order of the set,
\* which is any order
SortedDocs(k, bm25_results, semantic_results) ==
    LET all_doc_ids == ToSet(bm25_results) \cup ToSet(semantic_results)
        score(d) == RrfScore(k, Rank(bm25_results, d),
                             Rank(semantic_results, d))
    IN {xs \in [1..Cardinality(all_doc_ids) -> all_doc_ids] :
           /\ ToSet(xs) = all_doc_ids
           /\ \A i \in 1..(Len(xs) - 1) :
                  HigherFirst(score(xs[i]), score(xs[i + 1]))}

\* the HybridResult of a document of the page
HybridResult(k, bm25_results, semantic_results, d) ==
    [document_id |-> d,
     score |-> Round6(RrfScore(k, Rank(bm25_results, d),
                               Rank(semantic_results, d))),
     bm25_rank |-> Rank(bm25_results, d),
     semantic_rank |-> Rank(semantic_results, d)]

\* fetch_size = min(size * 3, settings.max_search_results)
FetchSize(size) ==
    IF size * 3 < MaxSearchResults THEN size * 3 ELSE MaxSearchResults

\* hybrid_search up to the return of bm25_search(query, db, 1, fetch_size)
HybridBm25 ==
    /\ hybrid.pc = "bm25"
    /\ \E xs \in RankedLists :
           /\ Len(xs) <= FetchSize(hybrid.size)
           /\ hybrid' = [hybrid EXCEPT !.pc = "semantic", !.bm25_results = xs]
    /\ UNCHANGED <<bm25, documents, job, crawl, cancel, create, site,
                   queryVars, indexVars, searchVars, autocompleteVars, rag,
                   document_embeddings, vectors, utilVars>>

\* semantic_search(query, db, 1, fetch_size) returns, and hybrid_search
\* fuses the two lists, sorts, cuts the page and returns
HybridFuse ==
    /\ hybrid.pc = "semantic"
    /\ \E embedded \in BOOLEAN, rows \in ChunkRows :
           LET semantic == SemanticSearch(embedded, rows, 1,
                                          FetchSize(hybrid.size))
           IN /\ Len(rows) <= 5 * FetchSize(hybrid.size)
              /\ \E sorted_docs \in SortedDocs(hybrid.k, hybrid.bm25_results,
                                               semantic.results) :
                     hybrid' = [hybrid EXCEPT
                         !.pc = "returned",
                         !.embedded = embedded,
                         !.semantic_results = semantic.results,
                         !.semantic_total = semantic.total,
                         !.sorted_docs = sorted_docs,
                         !.results =
                             LET page_docs == Page(sorted_docs, hybrid.page,
                                                   hybrid.size)
                             IN [i \in DOMAIN page_docs |->
                                   HybridResult(hybrid.k, hybrid.bm25_results,
                                                semantic.results,
                                                page_docs[i])],
                         !.total = Len(sorted_docs)]
    /\ UNCHANGED <<bm25, documents, job, crawl, cancel, create, site,
                   queryVars, indexVars, searchVars, autocompleteVars, rag,
                   document_embeddings, vectors, utilVars>>

InitHybrid ==
    /\ InitIdleQuery
    /\ InitIdleIndex
    /\ InitIdleSearch
    /\ InitIdleAutocomplete
    /\ InitIdleRag
    /\ InitIdleVectors
    /\ InitIdleUtil
    /\ documents = [d \in RankedDocs |-> Document(d, ContentOf(d))]
    /\ job = InitJob
    /\ crawl = [NewExecution(0) EXCEPT !.pc = "not_queued"]
    /\ cancel = [pc |-> "not_sent"]
    /\ create = [pc |-> "not_sent", url |-> None]
    /\ site = <<>>
    /\ bm25 = [pc |-> "not_called"]
    /\ hybrid \in [pc : {"bm25"}, page : {1, 2}, size : {1, DefaultSize},
                   k : {1, RrfK}, bm25_results : {<<>>}, embedded : {TRUE},
                   semantic_results : {<<>>}, semantic_total : {0},
                   sorted_docs : {<<>>}, results : {<<>>}, total : {0}]

NextHybrid ==
    \/ HybridBm25
    \/ HybridFuse

SpecHybrid == InitHybrid /\ [][NextHybrid]_vars


\* the page a caller asked hybrid_search for, cut from the list xs
AskedPage(xs) ==
    LET offset == (hybrid.page - 1) * hybrid.size
    IN [j \in 1..(IF Len(xs) - offset < 0 THEN 0
                  ELSE IF Len(xs) - offset < hybrid.size
                       THEN Len(xs) - offset ELSE hybrid.size) |->
           xs[offset + j]]

\* C18: when the query cannot be embedded, semantic_search returns ([], 0)
\* and raises nothing, and hybrid_search returns exactly the documents of
\* the BM25 list in BM25 order (the page asked for), each without a semantic
\* rank and with the RRF score 1 / (k + bm25 rank)
C18_EmbeddingFailure ==
    (hybrid.pc = "returned" /\ ~hybrid.embedded) =>
        /\ hybrid.semantic_results = <<>>
        /\ hybrid.semantic_total = 0
        /\ hybrid.total = Len(hybrid.bm25_results)
        /\ hybrid.sorted_docs = hybrid.bm25_results
        /\ LET page_docs == AskedPage(hybrid.bm25_results)
               offset == (hybrid.page - 1) * hybrid.size
           IN /\ Len(hybrid.results) = Len(page_docs)
              /\ \A j \in DOMAIN page_docs :
                     /\ hybrid.results[j].document_id = page_docs[j]
                     /\ hybrid.results[j].bm25_rank = offset + j
                     /\ hybrid.results[j].semantic_rank = NoRank
                     /\ hybrid.results[j].score =
                            (2 * 1000000 + (hybrid.k + offset + j))
                                \div (2 * (hybrid.k + offset + j))

C18_Witness ==
    /\ hybrid.pc = "returned"
    /\ ~hybrid.embedded
    /\ Len(hybrid.bm25_results) = MaxListLen
    /\ Len(hybrid.results) = MaxListLen
    /\ hybrid.k = RrfK

\* the ranks of document d in the two lists, as a bag
RankBag(d) ==
    LET at(xs) == {i \in DOMAIN xs : xs[i] = d}
        ranks == <<at(hybrid.bm25_results), at(hybrid.semantic_results)>>
    IN [r \in UNION {ranks[1], ranks[2]} |->
           Cardinality({l \in 1..2 : r \in ranks[l]})]

\* the sum of 1 / (k + rank) over the lists where d stands, compared with
\* the fraction q without division
IsRankSum(d, q) ==
    LET at(xs) == {i \in DOMAIN xs : xs[i] = d}
        b == at(hybrid.bm25_results)
        s == at(hybrid.semantic_results)
        bden == IF b = {} THEN 1 ELSE hybrid.k + (CHOOSE i \in b : TRUE)
        sden == IF s = {} THEN 1 ELSE hybrid.k + (CHOOSE i \in s : TRUE)
        bnum == IF b = {} THEN 0 ELSE 1
        snum == IF s = {} THEN 0 ELSE 1
    IN (bnum * sden + snum * bden) * q.den = q.num * (bden * sden)

\* the score hybrid_search gave document d, before rounding
ScoreOf(d) ==
    RrfScore(hybrid.k, Rank(hybrid.bm25_results, d),
             Rank(hybrid.semantic_results, d))

\* C19: hybrid_search scores each document of either list by the sum of
\* 1 / (k + rank) over the lists where it stands, returns the documents by
\* non-increasing score, and gives equal scores to documents whose ranks
\* are the same multiset
C19_ReciprocalRankFusion ==
    hybrid.pc = "returned" =>
        LET all_doc_ids == ToSet(hybrid.bm25_results)
                               \cup ToSet(hybrid.semantic_results)
        IN /\ ToSet(hybrid.sorted_docs) = all_doc_ids
           /\ Len(hybrid.sorted_docs) = Cardinality(all_doc_ids)
           /\ hybrid.total = Cardinality(all_doc_ids)
           /\ \A d \in all_doc_ids : IsRankSum(d, ScoreOf(d))
           /\ \A i, j \in DOMAIN hybrid.sorted_docs :
                  i < j => ScoreOf(hybrid.sorted_docs[i]).num
                               * ScoreOf(hybrid.sorted_docs[j]).den
                           >= ScoreOf(hybrid.sorted_docs[j]).num
                               * ScoreOf(hybrid.sorted_docs[i]).den
           /\ hybrid.results =
                  [j \in DOMAIN AskedPage(hybrid.sorted_docs) |->
                      LET d == AskedPage(hybrid.sorted_docs)[j]
                      IN [document_id |-> d,
                          score |-> Round6(ScoreOf(d)),
                          bm25_rank |->
                              IF d \in ToSet(hybrid.bm25_results)
                              THEN CHOOSE i \in DOMAIN hybrid.bm25_results :
                                       hybrid.bm25_results[i] = d
                              ELSE NoRank,
                          semantic_rank |->
                              IF d \in ToSet(hybrid.semantic_results)
                              THEN CHOOSE i \in
                                       DOMAIN hybrid.semantic_results :
                                       hybrid.semantic_results[i] = d
                              ELSE NoRank]]
           /\ \A i, j \in DOMAIN hybrid.results :
                  i < j => hybrid.results[i].score >= hybrid.results[j].score
           /\ \A i, j \in DOMAIN hybrid.results :
                  RankBag(hybrid.results[i].document_id)
                      = RankBag(hybrid.results[j].document_id)
                  => hybrid.results[i].score = hybrid.results[j].score

\* BM25 = [d1, d2, d3], semantic = [d3, d4, d1], k = 60: d1 and d3 tie at
\* the top, d2 and d4 tie behind them
C19_Witness ==
    /\ hybrid.pc = "returned"
    /\ hybrid.k = RrfK
    /\ hybrid.bm25_results = <<1, 2, 3>>
    /\ hybrid.semantic_results = <<3, 4, 1>>
    /\ Len(hybrid.results) = 4
    /\ {hybrid.results[1].document_id, hybrid.results[2].document_id} = {1, 3}
    /\ {hybrid.results[3].document_id, hybrid.results[4].document_id} = {2, 4}
    /\ hybrid.results[1].score = hybrid.results[2].score
    /\ hybrid.results[3].score = hybrid.results[4].score
    /\ hybrid.results[2].score > hybrid.results[3].score

----------------------------------------------------------------------------
(* BM25 search over the inverted index *)

\* documents of the corpus
CorpusSize == 4

\* settings.bm25_k1 = 1.2
Bm25K1 == Quotient(6, 5)
\* settings.bm25_b = 0.75
Bm25B == Quotient(3, 4)

\* a float holds 1 / Scale of the unit: the four decimals of
\* round(score, 4)
Scale == 10000

\* a / b * c / d
Times(x, y) == Quotient(x.num * y.num, x.den * y.den)

\* (a / b) / (c / d), c # 0
Over(x, y) == Quotient(x.num * y.den, x.den * y.num)

\* the series of atanh: z + z^3 / 3 + z^5 / 5 + ..., z and the sum in
\* 1 / Scale
RECURSIVE Atanh(_, _, _)
Atanh(power, square, n) ==
    IF power = 0 THEN 0
    ELSE power \div n + Atanh((power * square) \div Scale, square, n + 2)

\* math.log(p / q) in 1 / Scale, p > 0 and q > 0:
\* 2 * atanh((p - q) / (p + q)); to the nearest 1 / Scale from zero
Log(p, q) ==
    IF p >= q
    THEN LET z == ((p - q) * Scale + (p + q) - 1) \div (p + q)
         IN 2 * Atanh(z, (z * z) \div Scale, 1)
    ELSE LET z == ((q - p) * Scale + (p + q) - 1) \div (p + q)
         IN 0 - 2 * Atanh(z, (z * z) \div Scale, 1)

\* an IDF without the + 1 under the logarithm
IdfClassic(N, df) ==
    IF df = 0 THEN 0
    ELSE Log(2 * (N - df) + 1, 2 * df + 1)

\* idf_scores[term]: 0 for a term of no document, else
\* log((N - df + 0.5) / (df + 0.5) + 1), in 1 / Scale;
\* (N - df + 0.5) / (df + 0.5) + 1 = (2N - 2df + 1 + 2df + 1) / (2df + 1)
Idf(N, df) ==
    IF df = 0 THEN 0
    ELSE Log((2 * (N - df) + 1) + (2 * df + 1), 2 * df + 1)

\* select term, count(document_id) ... where term in query_terms group by
\* term: a term of no row has no count
DocFrequencies(rows, query_terms) ==
    [term \in {r.term : r \in {x \in rows : x.term \in ToSet(query_terms)}} |->
        Cardinality({r \in rows : r.term = term})]

\* the join of inverted_index and document_stats on document_id, for the
\* active terms
JoinRows(postings, stats, active_terms) ==
    UNION {{[document_id |-> r.document_id, term |-> r.term,
             term_frequency |-> r.term_frequency,
             total_terms |-> s.total_terms] :
                s \in {y \in stats : y.document_id = r.document_id}} :
              r \in {x \in postings : x.term \in ToSet(active_terms)}}

\* tf_component =
\*     (tf * (k1 + 1)) / (tf + k1 * (1 - b + b * doc_len / avgdl))
TfComponent(tf, doc_len, avgdl) ==
    LET one == Quotient(1, 1)
        norm == Plus(Quotient(Bm25B.den - Bm25B.num, Bm25B.den),
                     Over(Times(Bm25B, Quotient(doc_len, 1)), avgdl))
    IN Over(Times(Quotient(tf, 1), Plus(Bm25K1, one)),
            Plus(Quotient(tf, 1), Times(Bm25K1, norm)))

\* score = idf * tf_component, in 1 / Scale
TermScore(idf, row, avgdl) ==
    LET c == TfComponent(row.term_frequency, row.total_terms, avgdl)
    IN (idf * c.num) \div c.den

\* doc_scores after the loop over the rows
RECURSIVE SumScores(_, _, _)
SumScores(rows, idf, avgdl) ==
    IF rows = {} THEN 0
    ELSE LET r == CHOOSE x \in rows : TRUE
         IN TermScore(idf[r.term], r, avgdl)
                + SumScores(rows \ {r}, idf, avgdl)

DocScores(rows, idf, avgdl) ==
    [d \in {r.document_id : r \in rows} |->
        SumScores({r \in rows : r.document_id = d}, idf, avgdl)]

\* sorted(doc_scores.items(), key = score, reverse = True): the rows come
\* in no stated order, so documents of equal score stand in any order
SortedByScore(doc_scores) ==
    {xs \in [1..Cardinality(DOMAIN doc_scores) -> DOMAIN doc_scores] :
        /\ ToSet(xs) = DOMAIN doc_scores
        /\ \A i \in 1..(Len(xs) - 1) :
               doc_scores[xs[i]] >= doc_scores[xs[i + 1]]}

Bm25Return(results, total) ==
    [bm25 EXCEPT !.pc = "returned", !.results = results, !.total = total]

\* bm25_search up to the collection statistics it reads
Bm25Stats ==
    /\ bm25.pc = "called"
    /\ LET query_terms == Process(bm25.query, TRUE)
           coll_stats == {r \in collection_stats : r.id = 1}
       IN IF query_terms = <<>>
          THEN bm25' = Bm25Return(<<>>, 0)
          ELSE IF coll_stats = {}
                  \/ \E r \in coll_stats : r.total_documents = 0
          THEN bm25' = [Bm25Return(<<>>, 0) EXCEPT
                           !.query_terms = query_terms]
          ELSE LET r == CHOOSE x \in coll_stats : TRUE
               IN bm25' = [bm25 EXCEPT !.pc = "df",
                              !.query_terms = query_terms,
                              !.N = r.total_documents,
                              !.avgdl = r.avg_document_length]
    /\ UNCHANGED <<hybrid, notRankVars>>

\* the document frequencies, the IDF of each query term, the active terms
Bm25Idf ==
    /\ bm25.pc = "df"
    /\ LET doc_frequencies ==
               DocFrequencies(inverted_index, bm25.query_terms)
           df(term) == IF term \in DOMAIN doc_frequencies
                       THEN doc_frequencies[term] ELSE 0
           idf_scores == [term \in ToSet(bm25.query_terms) |->
                             Idf(bm25.N, df(term))]
           active_terms == SelectSeq(bm25.query_terms,
                                     LAMBDA t : idf_scores[t] > 0)
       IN bm25' = [(IF active_terms = <<>> THEN Bm25Return(<<>>, 0)
                    ELSE [bm25 EXCEPT !.pc = "postings"]) EXCEPT
                      !.doc_frequencies = doc_frequencies,
                      !.idf_scores = idf_scores,
                      !.active_terms = active_terms]
    /\ UNCHANGED <<hybrid, notRankVars>>

\* the postings of the active terms with the length of their documents,
\* the score of each document, the sort and the page; a division by an
\* average length of 0.0 raises ZeroDivisionError
Bm25Score ==
    /\ bm25.pc = "postings"
    /\ LET rows == JoinRows(inverted_index, document_stats,
                            bm25.active_terms)
       IN IF rows = {} THEN bm25' = Bm25Return(<<>>, 0)
          ELSE IF bm25.avgdl.num = 0
          THEN bm25' = [bm25 EXCEPT !.pc = "raised"]
          ELSE LET doc_scores == DocScores(rows, bm25.idf_scores, bm25.avgdl)
               IN \E sorted_docs \in SortedByScore(doc_scores) :
                      LET page_docs == Page(sorted_docs, bm25.page, bm25.size)
                      IN bm25' = [(IF page_docs = <<>>
                                   THEN Bm25Return(<<>>, Len(sorted_docs))
                                   ELSE [bm25 EXCEPT !.pc = "docs",
                                            !.total = Len(sorted_docs)])
                                  EXCEPT !.doc_scores = doc_scores,
                                         !.page_docs = page_docs]
    /\ UNCHANGED <<hybrid, notRankVars>>

\* the documents of the page are fetched; one that is gone is skipped
Bm25Docs ==
    /\ bm25.pc = "docs"
    /\ LET found == SelectSeq(bm25.page_docs, LAMBDA d : d \in DocIds)
       IN bm25' = Bm25Return(
              [i \in DOMAIN found |->
                  [document_id |-> found[i],
                   score |-> bm25.doc_scores[found[i]]]],
              bm25.total)
    /\ UNCHANGED <<hybrid, notRankVars>>

\* the queries of the model: str("ab"), str("ba"), str("ab ba"),
\* str("abs ab"), str("bb"), str("a")
Bm25Queries ==
    {<<"a", "b">>, <<"b", "a">>, <<"a", "b", " ", "b", "a">>,
     <<"a", "b", "s", " ", "a", "b">>, <<"b", "b">>, <<"a">>}

\* the rows index_document commits for document d
IndexedStats(d) ==
    IF TokenPositions(d) = <<>> THEN {}
    ELSE {[document_id |-> d, total_terms |-> TotalTerms(TokenPositions(d)),
           unique_terms |-> UniqueTerms(TokenPositions(d))]}

\* the documents of indexed are indexed and update_collection_stats has run
\* after the last of them: the Collection Stats are exact
InitBm25 ==
    /\ InitIdleQuery
    /\ InitIdleSearch
    /\ InitIdleAutocomplete
    /\ InitIdleRag
    /\ InitIdleVectors
    /\ InitIdleUtil
    /\ job = InitJob
    /\ crawl = [NewExecution(0) EXCEPT !.pc = "not_queued"]
    /\ cancel = [pc |-> "not_sent"]
    /\ create = [pc |-> "not_sent", url |-> None]
    /\ site = <<>>
    /\ tasks = <<>>
    /\ pool = 0
    /\ clock = 1
    /\ hybrid = [pc |-> "not_called"]
    /\ \E indexed \in SUBSET (1..CorpusSize) :
        /\ documents =
               [d \in 1..CorpusSize |->
                   [Document(d, ContentOf(d)) EXCEPT
                       !.indexed_at =
                           IF d \in indexed
                                /\ ProcessWithPositions(ContentOf(d)) # <<>>
                           THEN 1 ELSE 0]]
        /\ inverted_index =
               UNION {Entries(d, TokenPositions(d)) : d \in indexed}
        /\ document_stats = UNION {IndexedStats(d) : d \in indexed}
        /\ collection_stats =
               IF indexed = {} THEN {}
               ELSE {CollectionRow(CountDocs(document_stats),
                                   AvgLength(document_stats))}
    /\ bm25 \in [pc : {"called"}, query : Bm25Queries, page : {1, 2},
                 size : {1, DefaultSize}, query_terms : {<<>>}, N : {0},
                 avgdl : {Quotient(0, 1)}, doc_frequencies : {<<>>},
                 idf_scores : {<<>>}, active_terms : {<<>>},
                 doc_scores : {<<>>}, page_docs : {<<>>}, results : {<<>>},
                 total : {0}]

NextBm25 ==
    \/ Bm25Stats
    \/ Bm25Idf
    \/ Bm25Score
    \/ Bm25Docs

SpecBm25 == InitBm25 /\ [][NextBm25]_vars


\* the documents that hold the term, counted in the committed index
IndexedWith(term) == {r.document_id : r \in {x \in inverted_index : x.term = term}}

\* the Collection Stats bm25_search read are those of the committed index
StatsExact ==
    /\ bm25.N = CountDocs(document_stats)
    /\ bm25.avgdl = AvgLength(document_stats)

\* bm25_search has computed the IDF of its query terms
IdfComputed == bm25.idf_scores # <<>>

\* C20 as stated: a query term that stands in every indexed document
\* (df = N, Collection Stats exact) has an IDF <= 0 and is dropped from the
\* active terms
C20_AsStated ==
    (IdfComputed /\ StatsExact) =>
        \A term \in DOMAIN bm25.idf_scores :
            Cardinality(IndexedWith(term)) = bm25.N =>
                /\ bm25.idf_scores[term] <= 0
                /\ term \notin ToSet(bm25.active_terms)

\* C20: a query term that stands in every indexed document (df = N >= 1,
\* Collection Stats exact) has an IDF > 0, log((N + 1) / (N + 0.5)), is kept
\* among the active terms, and adds a positive amount to the score of every
\* indexed document
C20_CommonTermKept ==
    (IdfComputed /\ StatsExact) =>
        \A term \in DOMAIN bm25.idf_scores :
            Cardinality(IndexedWith(term)) = bm25.N =>
                /\ bm25.idf_scores[term] > 0
                /\ 2 * bm25.idf_scores[term] < Scale
                /\ term \in ToSet(bm25.active_terms)
                /\ bm25.doc_scores # <<>> =>
                       /\ DOMAIN bm25.doc_scores
                              = {r.document_id : r \in document_stats}
                       /\ \A d \in DOMAIN bm25.doc_scores :
                              bm25.doc_scores[d] > 0
                /\ bm25.pc = "returned" =>
                       /\ bm25.total = bm25.N
                       /\ \A i \in DOMAIN bm25.results :
                              bm25.results[i].score > 0

C20_Witness ==
    /\ bm25.pc = "returned"
    /\ StatsExact
    /\ bm25.N > 1
    /\ \E term \in DOMAIN bm25.idf_scores :
           /\ Cardinality(IndexedWith(term)) = bm25.N
           /\ bm25.idf_scores[term] > 0
    /\ Len(bm25.results) = bm25.N

----------------------------------------------------------------------------
(* highlight_terms *)

\* characters of a text, at most
MaxTextLen == 3
\* terms of a highlight_terms call, at most
MaxTerms == 2

\* str("<mark>") and str("</mark>")
OpenMark == <<"<", "m", "a", "r", "k", ">">>
CloseMark == <<"<", "/", "m", "a", "r", "k", ">">>

\* the texts and the terms of the model
MarkTexts ==
    UNION {[1..n -> {"a", "A", "b", " "}] : n \in 0..MaxTextLen}
MarkTerms == {<<"a">>, <<"b">>, <<"a", "b">>, <<"b", "a">>}

\* re.compile(re.escape(term), re.IGNORECASE) matches text at i
MatchesAt(text, term, i) ==
    /\ i + Len(term) - 1 <= Len(text)
    /\ Lower(SubSeq(text, i, i + Len(term) - 1)) = Lower(term)

\* pattern.sub(f"<mark>{term}</mark>", result) from position i: the
\* leftmost matches, none overlapping, each replaced by the term between
\* the tags
RECURSIVE Sub(_, _, _)
Sub(text, term, i) ==
    IF i > Len(text) THEN <<>>
    ELSE IF MatchesAt(text, term, i)
    THEN OpenMark \o term \o CloseMark \o Sub(text, term, i + Len(term))
    ELSE <<text[i]>> \o Sub(text, term, i + 1)

\* highlight_terms up to its loop: "" for an empty text
HighlightEnter ==
    /\ marked.pc = "called"
    /\ marked' = IF marked.text = <<>>
                 THEN [marked EXCEPT !.pc = "returned", !.result = <<>>]
                 ELSE [marked EXCEPT !.pc = "loop", !.result = marked.text,
                                     !.rest = marked.terms]
    /\ UNCHANGED <<chunked, generic, notUtilVars>>

\* one pass of the loop: result = pattern.sub(..., result)
HighlightSub ==
    /\ marked.pc = "loop"
    /\ marked.rest # <<>>
    /\ marked' = [marked EXCEPT !.result = Sub(marked.result,
                                               Head(marked.rest), 1),
                                !.rest = Tail(marked.rest)]
    /\ UNCHANGED <<chunked, generic, notUtilVars>>

\* return result
HighlightReturn ==
    /\ marked.pc = "loop"
    /\ marked.rest = <<>>
    /\ marked' = [marked EXCEPT !.pc = "returned"]
    /\ UNCHANGED <<chunked, generic, notUtilVars>>

InitHighlight ==
    /\ InitIdleCore
    /\ InitIdleAutocomplete
    /\ InitIdleRag
    /\ InitIdleVectors
    /\ InitIdleRank
    /\ chunked = [pc |-> "not_called"]
    /\ generic = [pc |-> "not_called"]
    /\ marked \in [pc : {"called"}, text : MarkTexts,
                   terms : UNION {[1..n -> MarkTerms] : n \in 0..MaxTerms},
                   rest : {<<>>}, result : {<<>>}]

NextHighlight ==
    \/ HighlightEnter
    \/ HighlightSub
    \/ HighlightReturn

SpecHighlight == InitHighlight /\ [][NextHighlight]_vars

\* text without the tags <mark> and </mark>
RECURSIVE StripMarks(_)
StripMarks(text) ==
    IF text = <<>> THEN <<>>
    ELSE IF Len(text) >= Len(OpenMark)
            /\ SubSeq(text, 1, Len(OpenMark)) = OpenMark
    THEN StripMarks(SubSeq(text, Len(OpenMark) + 1, Len(text)))
    ELSE IF Len(text) >= Len(CloseMark)
            /\ SubSeq(text, 1, Len(CloseMark)) = CloseMark
    THEN StripMarks(SubSeq(text, Len(CloseMark) + 1, Len(text)))
    ELSE <<Head(text)>> \o StripMarks(Tail(text))

\* C21: highlight_terms only inserts <mark> and </mark> and keeps the casing
\* of what it matches: the result without the tags is the text
C21_OnlyMarksInserted ==
    marked.pc = "returned" => StripMarks(marked.result) = marked.text

----------------------------------------------------------------------------
(* chunk_text, step by step *)

\* characters of a text handed to chunk_text, at most
MaxChunkChars == 5
\* chunk_size and chunk_overlap handed to chunk_text, at most
MaxChunkArg == 2

\* words[start:end]
PySlice(xs, start, end) ==
    LET clamp(i) == IF i < 0
                    THEN (IF Len(xs) + i < 0 THEN 0 ELSE Len(xs) + i)
                    ELSE (IF i > Len(xs) THEN Len(xs) ELSE i)
    IN SubSeq(xs, clamp(start) + 1, clamp(end))

\* an argument left out (None, <<>>) takes the setting
ArgOr(arg, setting) == IF arg = <<>> THEN setting ELSE arg[1]

\* chunk_text up to its loop
ChunkEnter ==
    /\ chunked.pc = "called"
    /\ LET chunk_size == ArgOr(chunked.chunk_size_arg, ChunkSize)
           chunk_overlap == ArgOr(chunked.chunk_overlap_arg, ChunkOverlap)
           words == Split(chunked.text, <<>>)
           entered == [chunked EXCEPT !.chunk_size = chunk_size,
                                      !.chunk_overlap = chunk_overlap]
       IN chunked' =
              IF chunked.text = <<>>
              THEN [entered EXCEPT !.pc = "returned"]
              ELSE IF Len(words) <= chunk_size
              THEN [entered EXCEPT !.pc = "returned", !.words = words,
                                   !.chunks = <<chunked.text>>]
              ELSE [entered EXCEPT !.pc = "loop", !.words = words]
    /\ UNCHANGED <<marked, generic, notUtilVars>>

\* a step that leaves no overlap
StepWithoutOverlap(start, chunk_size, chunk_overlap) == start + chunk_size

\* start += chunk_size - chunk_overlap
StepStart(start, chunk_size, chunk_overlap) ==
    start + chunk_size - chunk_overlap

\* one pass of the while loop; the model follows a loop that does not end
\* for one pass more than the text has words
ChunkStep ==
    /\ chunked.pc = "loop"
    /\ chunked.start < Len(chunked.words)
    /\ Len(chunked.chunks) <= Len(chunked.words)
    /\ LET end == IF chunked.start + chunked.chunk_size < Len(chunked.words)
                  THEN chunked.start + chunked.chunk_size
                  ELSE Len(chunked.words)
       IN chunked' = [chunked EXCEPT
              !.chunks = Append(chunked.chunks,
                                Join(PySlice(chunked.words, chunked.start,
                                             end))),
              !.start = StepStart(chunked.start, chunked.chunk_size,
                                  chunked.chunk_overlap)]
    /\ UNCHANGED <<marked, generic, notUtilVars>>

\* return chunks
ChunkReturn ==
    /\ chunked.pc = "loop"
    /\ chunked.start >= Len(chunked.words)
    /\ chunked' = [chunked EXCEPT !.pc = "returned"]
    /\ UNCHANGED <<marked, generic, notUtilVars>>

\* texts of the words str("a") and str("b") and blanks; sizes and overlaps
\* given or left out
InitChunk ==
    /\ InitIdleCore
    /\ InitIdleAutocomplete
    /\ InitIdleRag
    /\ InitIdleVectors
    /\ InitIdleRank
    /\ marked = [pc |-> "not_called"]
    /\ generic = [pc |-> "not_called"]
    /\ chunked \in
           [pc : {"called"},
            text : UNION {[1..n -> {"a", "b", " "}] : n \in 0..MaxChunkChars},
            chunk_size_arg : {<<>>} \cup {<<n>> : n \in 1..MaxChunkArg},
            chunk_overlap_arg : {<<>>} \cup {<<n>> : n \in 0..MaxChunkArg},
            chunk_size : {0}, chunk_overlap : {0}, words : {<<>>},
            start : {0}, chunks : {<<>>}]

NextChunk ==
    \/ ChunkEnter
    \/ ChunkStep
    \/ ChunkReturn

\* the call runs on: each step it can take, it takes
SpecChunk == InitChunk /\ [][NextChunk]_vars /\ WF_vars(NextChunk)

\* the words of chunk j of a text of n words, step s: the first and the last
FirstWord(j) == (j - 1) * (chunked.chunk_size - chunked.chunk_overlap) + 1
LastWord(j) ==
    IF FirstWord(j) + chunked.chunk_size - 1 < Len(chunked.words)
    THEN FirstWord(j) + chunked.chunk_size - 1 ELSE Len(chunked.words)

\* the chunks of a text of more than chunk_size words, overlap < size
LongTextChunks ==
    LET n == Len(chunked.words)
    IN /\ \A j \in DOMAIN chunked.chunks :
              /\ FirstWord(j) <= n
              /\ Split(chunked.chunks[j], <<>>)
                     = SubSeq(chunked.words, FirstWord(j), LastWord(j))
              /\ Len(Split(chunked.chunks[j], <<>>)) <= chunked.chunk_size
       /\ FirstWord(Len(chunked.chunks) + 1) > n
       /\ \A i \in 1..n : \E j \in DOMAIN chunked.chunks :
              /\ FirstWord(j) <= i
              /\ i <= LastWord(j)
              /\ Split(chunked.chunks[j], <<>>)[i - FirstWord(j) + 1]
                     = chunked.words[i]
       /\ \A j \in 1..(Len(chunked.chunks) - 1) :
              (/\ Len(Split(chunked.chunks[j], <<>>)) = chunked.chunk_size
               /\ Len(Split(chunked.chunks[j + 1], <<>>)) = chunked.chunk_size)
              => /\ LastWord(j) - FirstWord(j + 1) + 1 >= chunked.chunk_overlap
                 /\ \A o \in 1..chunked.chunk_overlap :
                        Split(chunked.chunks[j], <<>>)
                            [chunked.chunk_size - chunked.chunk_overlap + o]
                        = Split(chunked.chunks[j + 1], <<>>)[o]

\* chunk_text has returned, for an overlap smaller than the size
ChunkedInRange ==
    /\ chunked.pc = "returned"
    /\ chunked.chunk_overlap < chunked.chunk_size

\* C22 as stated: a text of more than chunkSize words is cut at the offsets
\* 0, s, 2s, ..., and a text of at most chunkSize words yields exactly one
\* chunk, the whole text
C22_AsStated ==
    ChunkedInRange =>
        IF Len(Split(chunked.text, <<>>)) > chunked.chunk_size
        THEN LongTextChunks
        ELSE chunked.chunks = <<chunked.text>>

\* C22: for chunkOverlap < chunkSize, a text of more than chunkSize words
\* is cut into chunks that start at the word offsets 0, s, 2s, ...
\* (s = chunkSize - chunkOverlap), of at most chunkSize words each, that
\* hold every word, two consecutive full chunks sharing chunkOverlap words;
\* a text that is not empty and has at most chunkSize words yields one
\* chunk, the whole text; the empty text yields no chunk
C22_ChunkCoverage ==
    ChunkedInRange =>
        IF chunked.text = <<>> THEN chunked.chunks = <<>>
        ELSE IF Len(Split(chunked.text, <<>>)) > chunked.chunk_size
        THEN LongTextChunks
        ELSE chunked.chunks = <<chunked.text>>

\* a text of three words cut into full chunks that overlap
C22_Witness ==
    /\ ChunkedInRange
    /\ Len(chunked.words) = 3
    /\ chunked.chunk_size = 2
    /\ chunked.chunk_overlap = 1
    /\ Len(chunked.chunks) = 3
    /\ chunked.words[1] # chunked.words[2]

\* C26 as stated: chunk_text terminates for all positive chunk_size and
\* chunk_overlap, also for chunk_overlap >= chunk_size: the start offset
\* grows on every pass of the loop
C26_Terminates ==
    /\ [][(chunked.pc = "loop" /\ chunked'.pc = "loop"
           /\ chunked.chunk_overlap > 0)
          => chunked'.start > chunked.start]_vars
    /\ (chunked.pc = "called" /\ chunked.chunk_overlap_arg # <<0>>)
           ~> (chunked.pc = "returned")

----------------------------------------------------------------------------
(* Index tasks and a BM25 search at the same time *)

\* the tasks dispatched over the corpus: index_document for each document
\* and for an id that names none, index_batch for the documents that yield
\* tokens, full_reindex
LiveCalls ==
    {NewTask("index_document", <<d>>) : d \in 1..CorpusSize + 1}
    \cup {NewTask("index_batch", <<1, 2>>), NewTask("full_reindex", <<>>)}

\* the corpus is stored, nothing is indexed; the tasks are queued and a
\* search is on its way
InitLive ==
    /\ documents = [d \in 1..CorpusSize |-> Document(d, ContentOf(d))]
    /\ job = InitJob
    /\ crawl = [NewExecution(0) EXCEPT !.pc = "not_queued"]
    /\ cancel = [pc |-> "not_sent"]
    /\ create = [pc |-> "not_sent", url |-> None]
    /\ site = <<>>
    /\ InitIdleQuery
    /\ InitIdleSearch
    /\ InitIdleAutocomplete
    /\ InitIdleRag
    /\ InitIdleVectors
    /\ InitIdleUtil
    /\ hybrid = [pc |-> "not_called"]
    /\ inverted_index = {}
    /\ document_stats = {}
    /\ collection_stats = {}
    /\ tasks \in [1..NumTasks -> LiveCalls]
    /\ pool = NumTasks
    /\ clock = 0
    /\ bm25 \in [pc : {"called"}, query : {<<"a", "b">>},
                 page : {1}, size : {DefaultSize}, query_terms : {<<>>},
                 N : {0}, avgdl : {Quotient(0, 1)},
                 doc_frequencies : {<<>>}, idf_scores : {<<>>},
                 active_terms : {<<>>}, doc_scores : {<<>>},
                 page_docs : {<<>>}, results : {<<>>}, total : {0}]

NextLive ==
    \/ \E t \in TaskIds : StartTask(t)
    \/ \E t \in TaskIds : Enumerate(t)
    \/ \E t \in TaskIds : Load(t)
    \/ \E t \in TaskIds : Delete(t)
    \/ \E t \in TaskIds : Insert(t)
    \/ \E t \in TaskIds : Stats(t)
    \/ \E t \in TaskIds : Stamp(t)
    \/ \E t \in TaskIds : Commit(t)
    \/ \E t \in TaskIds : Vectors(t)
    \/ \E t \in TaskIds : Count(t)
    \/ \E t \in TaskIds : Avg(t)
    \/ \E t \in TaskIds : UpsertCollection(t)
    \/ \E t \in TaskIds : IndexRetry(t)
    \/ Bm25Stats
    \/ Bm25Idf
    \/ Bm25Score
    \/ Bm25Docs

SpecLive == InitLive /\ [][NextLive]_vars


\* document d is missing, has no clean text, or its text yields no tokens
NothingToIndex(d) ==
    \/ d \notin DocIds
    \/ documents[d].clean_content = <<>>
    \/ Process(documents[d].clean_content, TRUE) = <<>>

\* C23: index_document(d) for a document that is missing, has empty clean
\* text or yields no tokens returns with no side effect: the postings, the
\* Document Stats and the indexed timestamp of d and the Collection Stats
\* stay as they are, and the session holds nothing to commit
C23_NoSideEffect ==
    [][\A t \in TaskIds :
          (/\ tasks[t].pc = "load"
           /\ tasks'[t] # tasks[t]
           /\ ~tasks[t].aborted
           /\ NothingToIndex(CurDoc(t)))
          => /\ tasks'[t].pc = "vectors" \/ tasks'[t].aborted
             /\ tasks'[t].tx = EmptyTx
             /\ inverted_index' = inverted_index
             /\ document_stats' = document_stats
             /\ documents' = documents
             /\ collection_stats' = collection_stats]_vars

\* index_document has returned for a stored document whose text yields no
\* tokens, beside an index that holds other documents
C23_Witness ==
    \E t \in TaskIds :
        /\ tasks[t].pc = "vectors"
        /\ ~tasks[t].aborted
        /\ CurDoc(t) \in DocIds
        /\ documents[CurDoc(t)].clean_content # <<>>
        /\ NothingToIndex(CurDoc(t))
        /\ inverted_index # {}
        /\ collection_stats # {}

\* C28: while index tasks and BM25 searches interleave, a search finds for
\* each query term a document frequency df <= N of the Collection Stats it
\* read, and drops no term that stands in the index
C28_DfWithinN ==
    IdfComputed =>
        \A term \in DOMAIN bm25.doc_frequencies :
            /\ bm25.doc_frequencies[term] <= bm25.N
            /\ bm25.idf_scores[term] > 0
            /\ term \in ToSet(bm25.active_terms)

\* C30: in every committed state a document has an indexed timestamp if and
\* only if it has a Document Stats row, and then it has a posting and
\* total_terms >= unique_terms >= 1; so the average length of the
\* Collection Stats is > 0 whenever their total is > 0
C30_IndexedIffStats ==
    /\ \A d \in DocIds :
           /\ documents[d].indexed_at # 0 <=> StatsOf(document_stats, d) # {}
           /\ \A r \in StatsOf(document_stats, d) :
                  /\ PostingsOf(inverted_index, d) # {}
                  /\ r.total_terms >= r.unique_terms
                  /\ r.unique_terms >= 1
    /\ \A r \in document_stats : r.document_id \in DocIds
    /\ \A c \in collection_stats :
           c.total_documents > 0 => c.avg_document_length.num > 0

\* a document is indexed beside one that is not, and the Collection Stats
\* count it
C30_Witness ==
    /\ \E d \in DocIds : documents[d].indexed_at # 0
    /\ \E d \in DocIds : documents[d].indexed_at = 0
                           /\ PostingsOf(inverted_index, d) = {}
    /\ \E c \in collection_stats : c.total_documents > 0


\* C24: in index_batch and full_reindex the failure of one document does
\* not keep a later document of the task from being indexed, and
\* update_collection_stats runs after the last document whether or not
\* documents failed: after a failure the next document that can be indexed
\* is indexed, and the statistics are read
C24_FailuresIsolated ==
    [][\A t \in TaskIds :
          (tasks[t].kind # "index_document" /\ tasks'[t] # tasks[t]) =>
              /\ (/\ tasks[t].pc = "load"
                  /\ tasks[t].aborted
                  /\ ~NothingToIndex(CurDoc(t)))
                 => tasks'[t].pc = "delete"
              /\ tasks[t].pc = "count" => tasks'[t].pc = "avg"]_vars

----------------------------------------------------------------------------
(* GenericCrawler: the custom crawler *)

\* max_pages a client asks for, at most
MaxPagesAsked == 2
\* max_depth a client asks for, at most
MaxCrawlDepthAsked == 2
\* hrefs on a page, at most
MaxHrefs == 2

\* min(int(config.get("max_pages", 50)), 500)
PagesCap == 500
\* settings.max_crawl_depth
MaxCrawlDepth == 3
\* return links[:50]
LinksCap == 50

\* a URL as urlparse splits it; rest is the query string or the fragment
Url(scheme, netloc, path, rest) ==
    [scheme |-> scheme, netloc |-> netloc, path |-> path, rest |-> rest]

\* the seed URLs of the model
SeedUrls ==
    {Url("http", "h1", "/1", ""), Url("http", "h1", "/1", "#f"),
     Url("http", "h2", "/1", "")}

\* the hrefs of the model: on the host h1, with a query string, with a
\* fragment, on another host, of another scheme, relative
Hrefs ==
    {Url("http", "h1", "/1", ""), Url("http", "h1", "/2", "?q"),
     Url("http", "h1", "/2", "#f"), Url("http", "h2", "/1", ""),
     Url("ftp", "h1", "/3", ""), Url("", "", "/3", "")}

\* a normalization that keeps the query string
StripFragment(url) ==
    [url EXCEPT !.rest = IF url.rest = "#f" THEN "" ELSE url.rest]

\* _normalize_url: f"{parsed.scheme}://{parsed.netloc}{parsed.path}"
NormalizeUrl(url) == [url EXCEPT !.rest = ""]

\* urljoin(base_url, href)
UrlJoin(base_url, href) ==
    IF href.scheme = ""
    THEN [href EXCEPT !.scheme = base_url.scheme, !.netloc = base_url.netloc]
    ELSE href

\* the loop of _extract_links over the a tags of a page
RECURSIVE ExtractLoop(_, _, _)
ExtractLoop(links, hrefs, base_url) ==
    IF hrefs = <<>> THEN links
    ELSE LET parsed == UrlJoin(base_url, Head(hrefs))
             normalized == NormalizeUrl(parsed)
         IN ExtractLoop(
                IF /\ parsed.netloc = base_url.netloc
                   /\ parsed.scheme \in {"http", "https"}
                   /\ normalized \notin ToSet(links)
                THEN Append(links, normalized) ELSE links,
                Tail(hrefs), base_url)

\* _extract_links
ExtractLinks(hrefs, base_url) ==
    Slice(ExtractLoop(<<>>, hrefs, base_url), LinksCap)

\* crawl up to its loop: validate_config, the queue of the seeds
CrawlStart ==
    /\ generic.pc = "called"
    /\ generic' =
           IF generic.urls = <<>>
           THEN [generic EXCEPT !.pc = "value_error"]
           ELSE [generic EXCEPT
                    !.pc = "loop",
                    !.max_pages = IF generic.pages_asked < PagesCap
                                  THEN generic.pages_asked ELSE PagesCap,
                    !.max_depth = IF generic.depth_asked < MaxCrawlDepth
                                  THEN generic.depth_asked ELSE MaxCrawlDepth,
                    !.queue = [i \in DOMAIN generic.urls |->
                                  [url |-> generic.urls[i], depth |-> 0]]]
    /\ UNCHANGED <<marked, chunked, notUtilVars>>

\* one pass of the loop up to client.get: pop, normalize, the visited test,
\* robots.txt
CrawlPop ==
    /\ generic.pc = "loop"
    /\ generic.queue # <<>>
    /\ generic.pages_yielded < generic.max_pages
    /\ LET normalized == NormalizeUrl(Head(generic.queue).url)
           popped == [generic EXCEPT !.queue = Tail(generic.queue)]
       IN IF normalized \in generic.visited
          THEN generic' = popped
          ELSE \E allowed \in BOOLEAN :
                   generic' = [popped EXCEPT
                       !.visited = generic.visited \cup {normalized},
                       !.pc = IF allowed THEN "get" ELSE "loop",
                       !.url = normalized,
                       !.depth = Head(generic.queue).depth]
    /\ UNCHANGED <<marked, chunked, notUtilVars>>

\* client.get(normalized): an exception, a status other than 200 or a
\* content that is not HTML go on with the loop; a page is yielded
CrawlGet ==
    /\ generic.pc = "get"
    /\ \E ok \in BOOLEAN, hrefs \in UNION {[1..n -> Hrefs] : n \in 0..MaxHrefs} :
           generic' = [generic EXCEPT
               !.fetched = Append(generic.fetched, generic.url),
               !.pc = IF ok THEN "yield" ELSE "loop",
               !.hrefs = IF ok THEN hrefs ELSE <<>>,
               !.yielded = IF ok
                           THEN Append(generic.yielded,
                                       [url |-> generic.url,
                                        depth |-> generic.depth])
                           ELSE generic.yielded]
    /\ UNCHANGED <<marked, chunked, notUtilVars>>

\* the consumer asks for the next page: the page is counted and its links
\* are queued
CrawlResume ==
    /\ generic.pc = "yield"
    /\ LET links == IF generic.depth < generic.max_depth
                    THEN SelectSeq(ExtractLinks(generic.hrefs, generic.url),
                                   LAMBDA link : link \notin generic.visited)
                    ELSE <<>>
       IN generic' = [generic EXCEPT
              !.pc = "loop",
              !.pages_yielded = generic.pages_yielded + 1,
              !.hrefs = <<>>,
              !.queue = generic.queue
                            \o [i \in DOMAIN links |->
                                   [url |-> links[i],
                                    depth |-> generic.depth + 1]],
              !.followed = generic.followed
                               \cup {[link |-> links[i], page |-> generic.url,
                                      depth |-> generic.depth + 1] :
                                         i \in DOMAIN links}]
    /\ UNCHANGED <<marked, chunked, notUtilVars>>

\* the loop is over
CrawlEnd ==
    /\ generic.pc = "loop"
    /\ generic.queue = <<>> \/ generic.pages_yielded >= generic.max_pages
    /\ generic' = [generic EXCEPT !.pc = "done"]
    /\ UNCHANGED <<marked, chunked, notUtilVars>>

InitGeneric ==
    /\ InitIdleCore
    /\ InitIdleAutocomplete
    /\ InitIdleRag
    /\ InitIdleVectors
    /\ InitIdleRank
    /\ marked = [pc |-> "not_called"]
    /\ chunked = [pc |-> "not_called"]
    /\ generic \in
           [pc : {"called"},
            urls : UNION {[1..n -> SeedUrls] : n \in 0..2},
            pages_asked : 0..MaxPagesAsked,
            depth_asked : 0..MaxCrawlDepthAsked,
            max_pages : {0}, max_depth : {0}, visited : {{}},
            queue : {<<>>}, pages_yielded : {0}, url : {<<>>}, depth : {0},
            hrefs : {<<>>}, fetched : {<<>>}, yielded : {<<>>},
            followed : {{}}]

NextGeneric ==
    \/ CrawlStart
    \/ CrawlPop
    \/ CrawlGet
    \/ CrawlResume
    \/ CrawlEnd

\* every request is answered or times out, and the consumer asks on
SpecGeneric == InitGeneric /\ [][NextGeneric]_vars /\ WF_vars(NextGeneric)


\* no two elements of the sequence are equal
Distinct(xs) == \A i, j \in DOMAIN xs : xs[i] = xs[j] => i = j

\* the URL with its fragment and query string stripped
Stripped(url) == Url(url.scheme, url.netloc, url.path, "")

\* what a run of crawl has kept to so far
CrawlWithinLimits ==
    generic.pc \in {"loop", "get", "yield", "done"} =>
        /\ Len(generic.yielded) <= generic.max_pages
        /\ \A i \in DOMAIN generic.yielded :
               /\ generic.yielded[i].depth <= generic.max_depth
               /\ generic.yielded[i].url = Stripped(generic.yielded[i].url)
               /\ \/ /\ generic.yielded[i].depth = 0
                     /\ \E s \in DOMAIN generic.urls :
                            Stripped(generic.urls[s]) = generic.yielded[i].url
                  \/ \E f \in generic.followed, j \in 1..(i - 1) :
                         /\ f.link = generic.yielded[i].url
                         /\ f.depth = generic.yielded[i].depth
                         /\ generic.yielded[j] =
                                [url |-> f.page, depth |-> f.depth - 1]
        /\ \A i \in DOMAIN generic.fetched :
               generic.fetched[i] = Stripped(generic.fetched[i])
        /\ Distinct(generic.fetched)
        /\ Distinct([i \in DOMAIN generic.yielded |-> generic.yielded[i].url])
        /\ \A f \in generic.followed : f.link.netloc = f.page.netloc

----------------------------------------------------------------------------
(* The result cache and the highlight parameter *)

\* C27: a request that has returned holds results formatted as it asked:
\* highlighted when its highlight parameter is true, not highlighted when
\* it is false, whether the response was computed or came from the cache
C27_CachedAsAsked ==
    \A id \in RequestIds :
        requests[id].pc = "returned" =>
            \A n \in DOMAIN requests[id].response.results :
                requests[id].response.results[n].marked
                    = requests[id].highlight


----------------------------------------------------------------------------
(* The counters of a crawl job *)

\* C29: no step of a crawl job, the executions after a retry included, makes
\* the job's persisted documents_found or documents_indexed smaller
C29_CountersNeverDecrease ==
    [][/\ job'.documents_found >= job.documents_found
       /\ job'.documents_indexed >= job.documents_indexed]_vars

====
